---- MODULE Spec2Model ----
(***************************************************************************)
(* Model of the OnWriting prototype pipeline: the composite rubric of      *)
(* schemas/editing.py, the style editor's score caps, and the              *)
(* write -> evaluate -> (revise | next_scene | complete) loop of           *)
(* pipelines/prototype.py.                                                 *)
(*                                                                         *)
(* Scores are floats with two decimals in the source; the model holds them *)
(* in hundredths (0.70 is 70) and intermediate values in three-hundredths, *)
(* which is exact for (weighted_sum - 1) / 3.  The integer computation     *)
(* agrees with the float computation of compute_quality_score on every     *)
(* combination of dimensions, flags and repetition counts 0..5.            *)
(***************************************************************************)
EXTENDS Integers, Sequences, FiniteSets, TLC

VARIABLES
    pc,                   \* the graph node that runs next / position of a call
    story_outline,        \* StoryOutline.acts: a sequence of acts, each a sequence of scene ids
    scene_drafts,         \* GraphState.scene_drafts
    edit_feedback,        \* GraphState.edit_feedback
    current_scene_index,  \* GraphState.current_scene_index
    revision_count,       \* GraphState.revision_count
    max_revisions,        \* GraphState.max_revisions
    min_revisions,        \* "min_revisions" key of the initial state
    current_stage,        \* GraphState.current_stage
    decision,             \* last value returned by should_revise_or_advance
    rubric,               \* the SceneRubric last built
    quality_score,        \* rubric.compute_quality_score() of that rubric
    approved,             \* rubric.compute_approved() of that rubric
    write_log,            \* scene index of every run_scene_writer call so far
    raw_output,           \* the StyleEditorOutput the judge returned last
    analysis_results,     \* the results of the deterministic analyzers, last evaluation
    call_args,            \* arguments of the text-analysis function being called
    call_result,          \* the value that function returned
    revision_context,     \* what run_scene_writer last added to its system prompt
    scene_metrics,        \* GraphState.scene_metrics
    steps,                \* number of graph nodes executed so far
    llm_calls,            \* every call of the generative model so far
    prompt_configs,       \* GraphState.prompt_configs, the configuration bundle of the run
    clock,                \* time.time(), in half seconds
    _call_timestamps,     \* base._call_timestamps: the admissions still in the deque
    _rate_lock,           \* base._rate_lock: 0 when free, else the caller that holds it
    _daily_call_count,    \* base._daily_call_count
    admitted,             \* every timestamp _wait_for_rate_limit has appended so far
    callers               \* the position of each caller of invoke() and its locals

vars == <<pc, story_outline, scene_drafts, edit_feedback, current_scene_index,
          revision_count, max_revisions, min_revisions, current_stage,
          decision, rubric, quality_score, approved, write_log,
          raw_output, analysis_results, call_args, call_result,
          revision_context, scene_metrics, steps, llm_calls, prompt_configs,
          clock, _call_timestamps, _rate_lock, _daily_call_count, admitted, callers>>

\* the rate limiter of agents/base.py and the callers of invoke()
rateVars == <<clock, _call_timestamps, _rate_lock, _daily_call_count, admitted, callers>>

pipelineVars == <<story_outline, scene_drafts, edit_feedback, current_scene_index,
                  revision_count, max_revisions, min_revisions, current_stage,
                  decision, write_log,
                  revision_context, scene_metrics, steps, llm_calls, prompt_configs>>

\* the state of the functions that are called outside a run of the graph
libraryVars == <<call_args, call_result, rateVars>>

(***************************************************************************)
(* Bounds of the model.                                                    *)
(***************************************************************************)
MaxScenes == 2          \* outlines have 1..MaxScenes scenes
MaxRevisions == 2       \* max_revisions and min_revisions range over 0..MaxRevisions
MaxRepetitions == 4     \* cross_scene_repetitions ranges over 0..MaxRepetitions
MaxSlop == 4            \* the judge confirms 0..MaxSlop flagged phrases
MaxProseLen == 11       \* texts given to check_word_count have 0..MaxProseLen characters
MaxTarget == 4          \* small word-count targets range over -1..MaxTarget
MaxRun == 9             \* two texts share a run of min_ngram..MaxRun words
MaxShortWords == 5      \* short texts have 0 or min_ngram..MaxShortWords words
MaxNameLen == 3         \* character names have 0..MaxNameLen characters
MaxThemeLen == 4        \* themes have 0..MaxThemeLen characters

\* config={"recursion_limit": 50} of pipeline.invoke
recursion_limit == 50

\* the revision counter is not counted beyond this value
RevisionCap == MaxRevisions + 2

\* run_scene_writer has added nothing to a system prompt
NoContext == [scene_id |-> 0, addenda |-> <<>>, feedback_scene_ids |-> {}]

\* AdvisoryPenaltyConfig() with its field defaults, in hundredths
AdvisoryPenaltyConfig ==
    [opener_monotony |-> 4, length_monotony |-> 4, passive_heavy |-> 2,
     structural_monotony |-> 2, low_diversity |-> 4, vocabulary_basic |-> 2,
     cross_scene_per |-> 2, cross_scene_max |-> 3]

\* PrototypeConfig().to_prompt_configs(): the entry the scoring is said to read
DefaultConfigs == [advisory_penalties |-> AdvisoryPenaltyConfig]

\* the limiter as the module is imported: nothing admitted, nobody calling
RateIdle ==
    /\ clock = 0
    /\ _call_timestamps = <<>>
    /\ _rate_lock = 0
    /\ _daily_call_count = 0
    /\ admitted = <<>>
    /\ callers = <<>>

\* no node has run, no model call was made, the configuration is the default one
TraceIdle ==
    /\ RateIdle
    /\ prompt_configs = DefaultConfigs
    /\ revision_context = NoContext
    /\ scene_metrics = <<>>
    /\ steps = 0
    /\ llm_calls = <<>>

(***************************************************************************)
(* schemas/editing.py: constants of the rubric, in hundredths.             *)
(***************************************************************************)
Dimensions == {"style_adherence", "character_voice", "outline_adherence",
               "pacing", "prose_quality"}

AdvisoryFlags == {"opener_monotony", "length_monotony", "passive_heavy",
                  "structural_monotony", "low_diversity", "vocabulary_basic"}

MinScore == 1
MaxScore == 4

DIMENSION_WEIGHTS == [d \in Dimensions |-> 20]

APPROVE_THRESHOLD == 70

FlagPenalty ==
    [f \in AdvisoryFlags |->
        CASE f = "opener_monotony"     -> 4
          [] f = "length_monotony"     -> 4
          [] f = "passive_heavy"       -> 2
          [] f = "structural_monotony" -> 2
          [] f = "low_diversity"       -> 4
          [] f = "vocabulary_basic"    -> 2]

CrossScenePenalty == 2
CrossSceneCap == 3

Min(a, b) == IF a < b THEN a ELSE b
Max(a, b) == IF a > b THEN a ELSE b

\* round(x, 2) for x given in three-hundredths, 0 <= x <= 300: nearest hundredth
Round2(x3) == (2 * x3 + 3) \div 6

\* sum(dimensions[dim] * DIMENSION_WEIGHTS[dim] for dim in dimensions), in hundredths
WeightedSum(r) ==
      r.style_adherence   * DIMENSION_WEIGHTS["style_adherence"]
    + r.character_voice   * DIMENSION_WEIGHTS["character_voice"]
    + r.outline_adherence * DIMENSION_WEIGHTS["outline_adherence"]
    + r.pacing            * DIMENSION_WEIGHTS["pacing"]
    + r.prose_quality     * DIMENSION_WEIGHTS["prose_quality"]

\* AdvisoryPenalty with the cross-scene penalty not capped
AdvisoryPenalty_uncapped(r) ==
      (IF r.opener_monotony     THEN FlagPenalty["opener_monotony"]     ELSE 0)
    + (IF r.length_monotony     THEN FlagPenalty["length_monotony"]     ELSE 0)
    + (IF r.passive_heavy       THEN FlagPenalty["passive_heavy"]       ELSE 0)
    + (IF r.structural_monotony THEN FlagPenalty["structural_monotony"] ELSE 0)
    + (IF r.low_diversity       THEN FlagPenalty["low_diversity"]       ELSE 0)
    + (IF r.vocabulary_basic    THEN FlagPenalty["vocabulary_basic"]    ELSE 0)
    + CrossScenePenalty * r.cross_scene_repetitions

\* advisory_penalty, in hundredths
AdvisoryPenalty(r) ==
      (IF r.opener_monotony     THEN FlagPenalty["opener_monotony"]     ELSE 0)
    + (IF r.length_monotony     THEN FlagPenalty["length_monotony"]     ELSE 0)
    + (IF r.passive_heavy       THEN FlagPenalty["passive_heavy"]       ELSE 0)
    + (IF r.structural_monotony THEN FlagPenalty["structural_monotony"] ELSE 0)
    + (IF r.low_diversity       THEN FlagPenalty["low_diversity"]       ELSE 0)
    + (IF r.vocabulary_basic    THEN FlagPenalty["vocabulary_basic"]    ELSE 0)
    + CrossScenePenalty * Min(r.cross_scene_repetitions, CrossSceneCap)

\* compute_quality_score with the advisory penalty added instead of subtracted
compute_quality_score_added(r) ==
    LET normalized3 == (r.style_adherence + r.character_voice + r.outline_adherence
                        + r.pacing + r.prose_quality) * 20 - 100
        penalty     == (IF r.opener_monotony THEN 4 ELSE 0) + (IF r.length_monotony THEN 4 ELSE 0)
                       + (IF r.passive_heavy THEN 2 ELSE 0) + (IF r.structural_monotony THEN 2 ELSE 0)
                       + (IF r.low_diversity THEN 4 ELSE 0) + (IF r.vocabulary_basic THEN 2 ELSE 0)
                       + 2 * Min(r.cross_scene_repetitions, 3)
        raw3        == normalized3 + 3 * penalty
    IN  (2 * Max(0, Min(300, raw3)) + 3) \div 6

\* SceneRubric.compute_quality_score, in hundredths
compute_quality_score(r) ==
    LET normalized3 == WeightedSum(r) - 100           \* (weighted_sum - 1.0) / 3.0, times 300
        raw3        == normalized3 - 3 * AdvisoryPenalty(r)
    IN  Round2(Max(0, Min(300, raw3)))

\* has_critical_failure with the comparison score < 1
has_critical_failure_strict(r) ==
    \/ r.style_adherence < 1 \/ r.character_voice < 1 \/ r.outline_adherence < 1
    \/ r.pacing < 1 \/ r.prose_quality < 1

\* SceneRubric.has_critical_failure
has_critical_failure(r) == \E d \in Dimensions : r[d] <= 1

\* compute_approved with the slop ratio as a third deterministic gate
compute_approved_slop_gate(r) ==
    /\ compute_quality_score(r) >= APPROVE_THRESHOLD
    /\ ~has_critical_failure(r)
    /\ r.word_count_in_range /\ r.tense_consistent /\ r.slop_ratio >= 50

\* SceneRubric.compute_approved
compute_approved(r) ==
    LET score_ok         == compute_quality_score(r) >= APPROVE_THRESHOLD
        no_critical      == ~has_critical_failure(r)
        deterministic_ok == r.word_count_in_range /\ r.tense_consistent
    IN  score_ok /\ no_critical /\ deterministic_ok

\* SceneRubric() with its field defaults
DefaultRubric ==
    [word_count_in_range |-> TRUE, tense_consistent |-> TRUE, slop_ratio |-> 100,
     style_adherence |-> 2, character_voice |-> 2, outline_adherence |-> 2,
     pacing |-> 2, prose_quality |-> 2,
     opener_monotony |-> FALSE, length_monotony |-> FALSE, passive_heavy |-> FALSE,
     structural_monotony |-> FALSE, low_diversity |-> FALSE, vocabulary_basic |-> FALSE,
     cross_scene_repetitions |-> 0]

\* no text-analysis function is being called
NoCall == <<>>

\* before the first evaluation there is no judge output and no analysis
NoOutput ==
    [style_adherence |-> 0, character_voice |-> 0, outline_adherence |-> 0,
     pacing |-> 0, prose_quality |-> 0, confirmed_slop |-> 0]

NoAnalysis ==
    [word_count_in_range |-> TRUE, tense_consistent |-> TRUE, slop_ratio |-> 100,
     opener_monotony |-> FALSE, length_monotony |-> FALSE, passive_heavy |-> FALSE,
     structural_monotony |-> FALSE, low_diversity |-> FALSE, vocabulary_basic |-> FALSE,
     shared_phrases |-> 0]

(***************************************************************************)
(* The rubric as a pure computation: a SceneRubric the field constraints   *)
(* admit is built, then compute_quality_score and compute_approved are     *)
(* applied to it (style_editor.py lines 317-318).                          *)
(*   SpecScore   draws every combination of the fields the score reads;    *)
(*   SpecRubric  also draws the deterministic gates and the slop ratio.    *)
(***************************************************************************)
Scores == MinScore..MaxScore

SlopRatios == {0, 100}

ScoreRubrics ==
    [word_count_in_range : {TRUE}, tense_consistent : {TRUE}, slop_ratio : {100},
     style_adherence : Scores, character_voice : Scores, outline_adherence : Scores,
     pacing : Scores, prose_quality : Scores,
     opener_monotony : BOOLEAN, length_monotony : BOOLEAN, passive_heavy : BOOLEAN,
     structural_monotony : BOOLEAN, low_diversity : BOOLEAN, vocabulary_basic : BOOLEAN,
     cross_scene_repetitions : 0..MaxRepetitions]

Rubrics ==
    [word_count_in_range : BOOLEAN, tense_consistent : BOOLEAN, slop_ratio : SlopRatios,
     style_adherence : Scores, character_voice : Scores, outline_adherence : Scores,
     pacing : Scores, prose_quality : Scores,
     opener_monotony : BOOLEAN, length_monotony : BOOLEAN, passive_heavy : BOOLEAN,
     structural_monotony : BOOLEAN, low_diversity : BOOLEAN, vocabulary_basic : BOOLEAN,
     cross_scene_repetitions : 0..MaxRepetitions]

\* the pipeline state is not involved in a rubric computation
PipelineIdle ==
    /\ story_outline = <<>>
    /\ scene_drafts = <<>>
    /\ edit_feedback = <<>>
    /\ current_scene_index = 0
    /\ revision_count = 0
    /\ max_revisions = 0
    /\ min_revisions = 0
    /\ current_stage = "planning"
    /\ decision = "none"
    /\ write_log = <<>>
    /\ TraceIdle
    /\ raw_output = NoOutput
    /\ analysis_results = NoAnalysis

InitScore ==
    /\ pc = "rubric_built"
    /\ rubric \in ScoreRubrics
    /\ quality_score = -1
    /\ approved = FALSE
    /\ PipelineIdle
    /\ call_args = NoCall
    /\ call_result = NoCall

InitRubric ==
    /\ pc = "rubric_built"
    /\ rubric \in Rubrics
    /\ quality_score = -1
    /\ approved = FALSE
    /\ PipelineIdle
    /\ call_args = NoCall
    /\ call_result = NoCall

\* quality_score = rubric.compute_quality_score(); approved = rubric.compute_approved()
ScoreRubric ==
    /\ pc = "rubric_built"
    /\ quality_score' = compute_quality_score(rubric)
    /\ approved' = compute_approved(rubric)
    /\ pc' = "rubric_scored"
    /\ UNCHANGED <<rubric, pipelineVars, rateVars, raw_output, analysis_results,
                   call_args, call_result>>

NextRubric == ScoreRubric

SpecScore == InitScore /\ [][NextRubric]_vars

SpecRubric == InitRubric /\ [][NextRubric]_vars

(***************************************************************************)
(* agents/style_editor.py: the evaluation of one draft.  The judge's       *)
(* output and the results of the deterministic analyzers depend on the     *)
(* prose, which is produced outside the program: they are inputs.          *)
(***************************************************************************)
cap_pacing_on_monotony == 2
cap_prose_on_slop_count == 3
cap_prose_on_slop_value == 2
cap_prose_on_low_diversity == 3

\* StyleEditorOutput values (confirmed_slop is the length of the list)
JudgeAllFours ==
    [style_adherence |-> 4, character_voice |-> 4, outline_adherence |-> 4,
     pacing |-> 4, prose_quality |-> 4, confirmed_slop |-> 0]

JudgeAllThrees ==
    [style_adherence |-> 3, character_voice |-> 3, outline_adherence |-> 3,
     pacing |-> 3, prose_quality |-> 3, confirmed_slop |-> 3]

\* results of the analyzers of layer 1; shared_phrases is the number of
\* phrases the prose would share with the prose of prior scenes
AnalysisClean ==
    [word_count_in_range |-> TRUE, tense_consistent |-> TRUE, slop_ratio |-> 100,
     opener_monotony |-> FALSE, length_monotony |-> FALSE, passive_heavy |-> FALSE,
     structural_monotony |-> FALSE, low_diversity |-> FALSE, vocabulary_basic |-> FALSE,
     shared_phrases |-> 0]

AnalysisMonotone ==
    [word_count_in_range |-> TRUE, tense_consistent |-> TRUE, slop_ratio |-> 100,
     opener_monotony |-> TRUE, length_monotony |-> FALSE, passive_heavy |-> FALSE,
     structural_monotony |-> FALSE, low_diversity |-> TRUE, vocabulary_basic |-> FALSE,
     shared_phrases |-> 1]

AnalysisOutOfRange ==
    [word_count_in_range |-> FALSE, tense_consistent |-> TRUE, slop_ratio |-> 100,
     opener_monotony |-> FALSE, length_monotony |-> FALSE, passive_heavy |-> FALSE,
     structural_monotony |-> FALSE, low_diversity |-> FALSE, vocabulary_basic |-> FALSE,
     shared_phrases |-> 0]

\* the (judge output, analysis) pairs an evaluation draws from
EvalCases ==
    { <<JudgeAllFours, AnalysisClean>>,
      <<JudgeAllFours, AnalysisMonotone>>,
      <<JudgeAllThrees, AnalysisOutOfRange>> }

\* detect_cross_scene_repetition(...).repeated_count: 0 without prior scenes
RepeatedCount(analysis, prior_proses) ==
    IF prior_proses = <<>> THEN 0 ELSE analysis.shared_phrases

\* deterministic score caps, lines 262-270
CappedPacing(llm_output, structure_result) ==
    IF structure_result.opener_monotony \/ structure_result.length_monotony
    THEN Min(llm_output.pacing, cap_pacing_on_monotony)
    ELSE llm_output.pacing

\* CappedProse variant: the low-diversity cap replaces the cliche cap
CappedProse_last_cap_wins(llm_output, vocab_result) ==
    LET after_slop == IF llm_output.confirmed_slop >= cap_prose_on_slop_count
                      THEN Min(llm_output.prose_quality, cap_prose_on_slop_value)
                      ELSE llm_output.prose_quality
    IN  IF vocab_result.low_diversity
        THEN Min(llm_output.prose_quality, cap_prose_on_low_diversity)
        ELSE after_slop

\* deterministic score caps, lines 272-289
CappedProse(llm_output, vocab_result) ==
    LET after_slop == IF llm_output.confirmed_slop >= cap_prose_on_slop_count
                      THEN Min(llm_output.prose_quality, cap_prose_on_slop_value)
                      ELSE llm_output.prose_quality
    IN  IF vocab_result.low_diversity
        THEN Min(after_slop, cap_prose_on_low_diversity)
        ELSE after_slop

\* rubric = SceneRubric(...), lines 293-315
BuildRubric(llm_output, analysis, repeated_count) ==
    [word_count_in_range |-> analysis.word_count_in_range,
     tense_consistent |-> analysis.tense_consistent,
     slop_ratio |-> analysis.slop_ratio,
     opener_monotony |-> analysis.opener_monotony,
     length_monotony |-> analysis.length_monotony,
     passive_heavy |-> analysis.passive_heavy,
     structural_monotony |-> analysis.structural_monotony,
     low_diversity |-> analysis.low_diversity,
     vocabulary_basic |-> analysis.vocabulary_basic,
     cross_scene_repetitions |-> repeated_count,
     style_adherence |-> llm_output.style_adherence,
     character_voice |-> llm_output.character_voice,
     outline_adherence |-> llm_output.outline_adherence,
     pacing |-> CappedPacing(llm_output, analysis),
     prose_quality |-> CappedProse(llm_output, analysis)]

\* BuildFeedback variant: score and verdict are computed on the judge's own
\* pacing and prose scores, not on the capped ones the rubric stores
BuildFeedback_uncapped_verdict(scene_id, llm_output, r) ==
    LET raw == [r EXCEPT !.pacing = llm_output.pacing,
                         !.prose_quality = llm_output.prose_quality]
    IN  [scene_id |-> scene_id,
         quality_score |-> compute_quality_score(raw),
         approved |-> compute_approved(raw),
         confirmed_slop |-> llm_output.confirmed_slop,
         rubric |-> r]

\* edit_feedback = EditFeedback(...), lines 317-328
BuildFeedback(scene_id, llm_output, r) ==
    [scene_id |-> scene_id,
     quality_score |-> compute_quality_score(r),
     approved |-> compute_approved(r),
     confirmed_slop |-> llm_output.confirmed_slop,
     rubric |-> r]

(***************************************************************************)
(* pipelines/prototype.py: the graph state and the conditional edge.       *)
(***************************************************************************)
Last(seq) == seq[Len(seq)]

\* all_scenes: the scenes of all acts, in order
RECURSIVE AllScenes(_)
AllScenes(acts) ==
    IF acts = <<>> THEN <<>> ELSE Head(acts) \o AllScenes(Tail(acts))

\* _get_total_scenes, over state.story_outline
RECURSIVE _get_total_scenes(_)
_get_total_scenes(acts) ==
    IF acts = <<>> THEN 0 ELSE Len(Head(acts)) + _get_total_scenes(Tail(acts))

\* the GraphState the nodes and the conditional edge read
State ==
    [story_outline |-> story_outline,
     scene_drafts |-> scene_drafts,
     edit_feedback |-> edit_feedback,
     current_scene_index |-> current_scene_index,
     revision_count |-> revision_count,
     max_revisions |-> max_revisions,
     current_stage |-> current_stage]

\* should_revise_or_advance variants: the budget test off by one downwards,
\* off by one upwards, absent, and the next-scene test off by one
Advance(state) ==
    IF state.current_scene_index + 1 < _get_total_scenes(state.story_outline)
    THEN "next_scene" ELSE "complete"

should_revise_or_advance_short_budget(state) ==
    IF state.edit_feedback = <<>> THEN "complete"
    ELSE IF ~Last(state.edit_feedback).approved
            /\ state.revision_count + 1 < state.max_revisions
         THEN "revise" ELSE Advance(state)

should_revise_or_advance_long_budget(state) ==
    IF state.edit_feedback = <<>> THEN "complete"
    ELSE IF ~Last(state.edit_feedback).approved
            /\ state.revision_count <= state.max_revisions
         THEN "revise" ELSE Advance(state)

should_revise_or_advance_no_budget(state) ==
    IF state.edit_feedback = <<>> THEN "complete"
    ELSE IF ~Last(state.edit_feedback).approved
         THEN "revise" ELSE Advance(state)

should_revise_or_advance_extra_scene(state) ==
    IF state.edit_feedback = <<>> THEN "complete"
    ELSE IF ~Last(state.edit_feedback).approved
            /\ state.revision_count < state.max_revisions
         THEN "revise"
         ELSE IF state.current_scene_index < _get_total_scenes(state.story_outline)
              THEN "next_scene" ELSE "complete"

\* should_revise_or_advance variant: the budget allows one revision more
should_revise_or_advance_one_more(state) ==
    IF state.edit_feedback = <<>> THEN "complete"
    ELSE IF ~Last(state.edit_feedback).approved
            /\ state.revision_count < state.max_revisions + 1
         THEN "revise" ELSE Advance(state)

\* should_revise_or_advance
should_revise_or_advance(state) ==
    IF state.edit_feedback = <<>> THEN "complete"
    ELSE LET latest_feedback == Last(state.edit_feedback)
             total_scenes    == _get_total_scenes(state.story_outline)
         IN  IF ~latest_feedback.approved /\ state.revision_count < state.max_revisions
             THEN "revise"
             ELSE IF state.current_scene_index + 1 < total_scenes
                  THEN "next_scene"
                  ELSE "complete"

\* EdgeTarget variant: "complete" is wired to advance_scene
EdgeTarget_complete_advances(d) ==
    CASE d = "revise"     -> "prepare_revision"
      [] d = "next_scene" -> "advance_scene"
      [] d = "complete"   -> "advance_scene"

\* the mapping of add_conditional_edges
EdgeTarget(d) ==
    CASE d = "revise"     -> "prepare_revision"
      [] d = "next_scene" -> "advance_scene"
      [] d = "complete"   -> "mark_complete"

\* story outlines of 1..MaxScenes scenes with ids 1..n, split into two acts
Range(a, b) == [i \in 1..(b - a + 1) |-> a + i - 1]

Outlines ==
    { <<Range(1, k), Range(k + 1, n)>> : <<n, k>> \in
          { <<n, k>> \in (1..MaxScenes) \X (0..MaxScenes) : k < n } }

(***************************************************************************)
(* The pipeline: the graph of build_prototype_pipeline, started by         *)
(* scripts/run_prototype.py with empty lists and zero counters.            *)
(***************************************************************************)
Init ==
    /\ pc = "plot_architect"
    /\ story_outline = <<>>
    /\ scene_drafts = <<>>
    /\ edit_feedback = <<>>
    /\ current_scene_index = 0
    /\ revision_count = 0
    /\ max_revisions \in 0..MaxRevisions
    /\ min_revisions \in 0..MaxRevisions
    /\ current_stage = "planning"
    /\ decision = "none"
    /\ rubric = DefaultRubric
    /\ quality_score = -1
    /\ approved = FALSE
    /\ write_log = <<>>
    /\ TraceIdle
    /\ raw_output = NoOutput
    /\ analysis_results = NoAnalysis
    /\ call_args = NoCall
    /\ call_result = NoCall

\* one call of the generative model: the agent that makes it and the function
\* it goes through, "invoke" of agents/base.py or the runnable's own "llm.invoke"
ModelCall(agent, through) == [agent |-> agent, through |-> through]

\* run_scene_writer variant: the revision framing is used whatever the verdict
RevisionContext_always_revision(scene_id) ==
    IF revision_count > 0 /\ edit_feedback # <<>>
    THEN LET latest_feedback == Last(edit_feedback)
         IN  [scene_id |-> scene_id,
              addenda |-> <<"REVISION_ADDENDUM">>,
              feedback_scene_ids |-> {latest_feedback.scene_id}]
    ELSE [scene_id |-> scene_id, addenda |-> <<>>, feedback_scene_ids |-> {}]

\* run_scene_writer variant: the latest feedback is used whenever there is one
RevisionContext_any_history(scene_id) ==
    IF edit_feedback # <<>>
    THEN LET latest_feedback == Last(edit_feedback)
         IN  [scene_id |-> scene_id,
              addenda |-> IF latest_feedback.approved
                          THEN <<"POLISH_ADDENDUM">>
                          ELSE <<"REVISION_ADDENDUM">>,
              feedback_scene_ids |-> {latest_feedback.scene_id}]
    ELSE [scene_id |-> scene_id, addenda |-> <<>>, feedback_scene_ids |-> {}]

\* run_scene_writer, lines 78-174: what is added to the system prompt for the
\* scene, and the scene of the EditFeedback it is taken from
RevisionContext(scene_id) ==
    IF revision_count > 0 /\ edit_feedback # <<>>
    THEN LET latest_feedback == Last(edit_feedback)
         IN  [scene_id |-> scene_id,
              addenda |-> IF latest_feedback.approved
                          THEN <<"POLISH_ADDENDUM">>
                          ELSE <<"REVISION_ADDENDUM">>,
              feedback_scene_ids |-> {latest_feedback.scene_id}]
    ELSE [scene_id |-> scene_id, addenda |-> <<>>, feedback_scene_ids |-> {}]

\* run_plot_architect: brief, roster and world are produced; stage -> "outlining"
PlotArchitect ==
    /\ pc = "plot_architect"
    /\ current_stage' = "outlining"
    /\ pc' = "beat_outliner"
    /\ UNCHANGED <<story_outline, scene_drafts, edit_feedback, current_scene_index,
                   revision_count, max_revisions, min_revisions, decision,
                   rubric, quality_score, approved, write_log>>
    /\ UNCHANGED <<raw_output, analysis_results, libraryVars, prompt_configs>>
    /\ llm_calls' = llm_calls \o <<ModelCall("plot_architect", "llm.invoke"),
                                   ModelCall("plot_architect", "llm.invoke"),
                                   ModelCall("plot_architect", "llm.invoke")>>
    /\ steps' = steps + 1
    /\ UNCHANGED <<revision_context, scene_metrics>>

\* run_beat_outliner: the outline is produced; stage -> "writing"
BeatOutliner ==
    /\ pc = "beat_outliner"
    /\ \E outline \in Outlines : story_outline' = outline
    /\ current_stage' = "writing"
    /\ pc' = "scene_writer"
    /\ UNCHANGED <<scene_drafts, edit_feedback, current_scene_index,
                   revision_count, max_revisions, min_revisions, decision,
                   rubric, quality_score, approved, write_log>>
    /\ UNCHANGED <<raw_output, analysis_results, libraryVars, prompt_configs>>
    /\ llm_calls' = Append(llm_calls, ModelCall("beat_outliner", "llm.invoke"))
    /\ steps' = steps + 1
    /\ UNCHANGED <<revision_context, scene_metrics>>

\* run_scene_writer variant: a revision is appended like a first draft
SceneWriter_always_append ==
    /\ pc = "scene_writer"
    /\ LET all_scenes == AllScenes(story_outline)
       IN  IF current_scene_index >= Len(all_scenes)
           THEN \* all_scenes[current_idx] raises IndexError
                /\ pc' = "raised"
                /\ UNCHANGED <<scene_drafts, write_log, revision_context, llm_calls>>
           ELSE LET scene_draft == [scene_id |-> all_scenes[current_scene_index + 1],
                                    prose |-> Len(write_log) + 1]
                IN  /\ revision_context' = RevisionContext(scene_draft.scene_id)
                    /\ llm_calls' = Append(llm_calls, ModelCall("scene_writer", "invoke"))
                    /\ scene_drafts' =
                           Append(scene_drafts, scene_draft)
                    /\ write_log' = Append(write_log, current_scene_index)
                    /\ pc' = "style_editor"
    /\ UNCHANGED <<story_outline, edit_feedback, current_scene_index, revision_count,
                   max_revisions, min_revisions, current_stage, decision,
                   rubric, quality_score, approved>>
    /\ UNCHANGED <<raw_output, analysis_results, libraryVars, prompt_configs>>
    /\ steps' = steps + 1
    /\ UNCHANGED scene_metrics

\* run_scene_writer variant: a revision replaces the first draft of the list
SceneWriter_replace_first ==
    /\ pc = "scene_writer"
    /\ LET all_scenes == AllScenes(story_outline)
       IN  IF current_scene_index >= Len(all_scenes)
           THEN \* all_scenes[current_idx] raises IndexError
                /\ pc' = "raised"
                /\ UNCHANGED <<scene_drafts, write_log, revision_context, llm_calls>>
           ELSE LET scene_draft == [scene_id |-> all_scenes[current_scene_index + 1],
                                    prose |-> Len(write_log) + 1]
                IN  /\ revision_context' = RevisionContext(scene_draft.scene_id)
                    /\ llm_calls' = Append(llm_calls, ModelCall("scene_writer", "invoke"))
                    /\ scene_drafts' =
                           IF revision_count > 0 /\ scene_drafts # <<>>
                           THEN [scene_drafts EXCEPT ![1] = scene_draft]
                           ELSE Append(scene_drafts, scene_draft)
                    /\ write_log' = Append(write_log, current_scene_index)
                    /\ pc' = "style_editor"
    /\ UNCHANGED <<story_outline, edit_feedback, current_scene_index, revision_count,
                   max_revisions, min_revisions, current_stage, decision,
                   rubric, quality_score, approved>>
    /\ UNCHANGED <<raw_output, analysis_results, libraryVars, prompt_configs>>
    /\ steps' = steps + 1
    /\ UNCHANGED scene_metrics

\* run_scene_writer: the draft of the current scene replaces the last draft
\* on a revision and is appended otherwise.  The prose is the ordinal of the
\* writer call that produced it.
SceneWriter ==
    /\ pc = "scene_writer"
    /\ LET all_scenes == AllScenes(story_outline)
       IN  IF current_scene_index >= Len(all_scenes)
           THEN \* all_scenes[current_idx] raises IndexError
                /\ pc' = "raised"
                /\ UNCHANGED <<scene_drafts, write_log, revision_context, llm_calls>>
           ELSE LET scene_draft == [scene_id |-> all_scenes[current_scene_index + 1],
                                    prose |-> Len(write_log) + 1]
                IN  /\ revision_context' = RevisionContext(scene_draft.scene_id)
                    /\ llm_calls' = Append(llm_calls, ModelCall("scene_writer", "invoke"))
                    /\ scene_drafts' =
                           IF revision_count > 0 /\ scene_drafts # <<>>
                           THEN [scene_drafts EXCEPT ![Len(scene_drafts)] = scene_draft]
                           ELSE Append(scene_drafts, scene_draft)
                    /\ write_log' = Append(write_log, current_scene_index)
                    /\ pc' = "style_editor"
    /\ UNCHANGED <<story_outline, edit_feedback, current_scene_index, revision_count,
                   max_revisions, min_revisions, current_stage, decision,
                   rubric, quality_score, approved>>
    /\ UNCHANGED <<raw_output, analysis_results, libraryVars, prompt_configs>>
    /\ steps' = steps + 1
    /\ UNCHANGED scene_metrics

\* run_style_editor variant: the feedback of a revision replaces the feedback
\* of the draft it revises
run_style_editor_latest_only(out, an) ==
    /\ LET latest_draft  == Last(scene_drafts)
           all_scenes    == AllScenes(story_outline)
           prior_proses  == SubSeq(scene_drafts, 1, Len(scene_drafts) - 1)
       IN  IF latest_draft.scene_id # all_scenes[current_scene_index + 1]
           THEN \* assert latest_draft.scene_id == scene_outline.scene_id
                /\ pc' = "raised"
                /\ UNCHANGED <<edit_feedback, rubric, quality_score, approved,
                               raw_output, analysis_results, scene_metrics, llm_calls>>
           ELSE LET repeated_count == RepeatedCount(an, prior_proses)
                    r == BuildRubric(out, an, repeated_count)
                    feedback == BuildFeedback(latest_draft.scene_id, out, r)
                IN  /\ llm_calls' = Append(llm_calls, ModelCall("style_editor", "invoke"))
                    /\ scene_metrics' = Append(scene_metrics, [scene_id |-> latest_draft.scene_id])
                    /\ raw_output' = out
                    /\ analysis_results' = an
                    /\ rubric' = r
                    /\ quality_score' = feedback.quality_score
                    /\ approved' = feedback.approved
                    /\ edit_feedback' =
                           IF revision_count > 0 /\ edit_feedback # <<>>
                           THEN [edit_feedback EXCEPT ![Len(edit_feedback)] = feedback]
                           ELSE Append(edit_feedback, feedback)
                    /\ pc' = "should_revise_or_advance"
    /\ UNCHANGED <<story_outline, scene_drafts, current_scene_index, revision_count,
                   max_revisions, min_revisions, current_stage, decision, write_log,
                   libraryVars, revision_context, prompt_configs>>

\* run_style_editor on a judge output and the analyzers' results: the latest
\* draft is evaluated and one EditFeedback appended
run_style_editor(out, an) ==
    /\ LET latest_draft  == Last(scene_drafts)
           all_scenes    == AllScenes(story_outline)
           prior_proses  == SubSeq(scene_drafts, 1, Len(scene_drafts) - 1)
       IN  IF latest_draft.scene_id # all_scenes[current_scene_index + 1]
           THEN \* assert latest_draft.scene_id == scene_outline.scene_id
                /\ pc' = "raised"
                /\ UNCHANGED <<edit_feedback, rubric, quality_score, approved,
                               raw_output, analysis_results, scene_metrics, llm_calls>>
           ELSE LET repeated_count == RepeatedCount(an, prior_proses)
                    r == BuildRubric(out, an, repeated_count)
                    feedback == BuildFeedback(latest_draft.scene_id, out, r)
                IN  /\ llm_calls' = Append(llm_calls, ModelCall("style_editor", "invoke"))
                    /\ scene_metrics' = Append(scene_metrics, [scene_id |-> latest_draft.scene_id])
                    /\ raw_output' = out
                    /\ analysis_results' = an
                    /\ rubric' = r
                    /\ quality_score' = feedback.quality_score
                    /\ approved' = feedback.approved
                    /\ edit_feedback' = Append(edit_feedback, feedback)
                    /\ pc' = "should_revise_or_advance"
    /\ UNCHANGED <<story_outline, scene_drafts, current_scene_index, revision_count,
                   max_revisions, min_revisions, current_stage, decision, write_log,
                   libraryVars, revision_context, prompt_configs>>

\* the style_editor node: the judge and the analyzers answer on the draft
StyleEditor ==
    /\ pc = "style_editor"
    /\ \E case \in EvalCases : run_style_editor(case[1], case[2])
    /\ steps' = steps + 1

\* the conditional edge after style_editor
Route ==
    /\ pc = "should_revise_or_advance"
    /\ decision' = should_revise_or_advance(State)
    /\ pc' = EdgeTarget(decision')
    /\ UNCHANGED <<story_outline, scene_drafts, edit_feedback, current_scene_index,
                   revision_count, max_revisions, min_revisions, current_stage,
                   rubric, quality_score, approved, write_log>>
    /\ UNCHANGED <<raw_output, analysis_results, libraryVars, prompt_configs>>
    /\ UNCHANGED <<revision_context, scene_metrics, steps, llm_calls>>

\* prepare_revision
PrepareRevision ==
    /\ pc = "prepare_revision"
    /\ revision_count < RevisionCap
    /\ revision_count' = revision_count + 1
    /\ pc' = "scene_writer"
    /\ UNCHANGED <<story_outline, scene_drafts, edit_feedback, current_scene_index,
                   max_revisions, min_revisions, current_stage, decision,
                   rubric, quality_score, approved, write_log>>
    /\ UNCHANGED <<raw_output, analysis_results, libraryVars, prompt_configs>>
    /\ steps' = steps + 1
    /\ UNCHANGED <<revision_context, scene_metrics, llm_calls>>

\* advance_scene variant: the scene after the next one becomes current
AdvanceScene_skip_one ==
    /\ pc = "advance_scene"
    /\ current_scene_index' = current_scene_index + 2
    /\ revision_count' = 0
    /\ pc' = "scene_writer"
    /\ UNCHANGED <<story_outline, scene_drafts, edit_feedback,
                   max_revisions, min_revisions, current_stage, decision,
                   rubric, quality_score, approved, write_log>>
    /\ UNCHANGED <<raw_output, analysis_results, libraryVars, prompt_configs>>
    /\ steps' = steps + 1
    /\ UNCHANGED <<revision_context, scene_metrics, llm_calls>>

\* advance_scene variant: the revision counter is carried over to the next scene
AdvanceScene_keep_count ==
    /\ pc = "advance_scene"
    /\ current_scene_index' = current_scene_index + 1
    /\ revision_count' = revision_count
    /\ pc' = "scene_writer"
    /\ UNCHANGED <<story_outline, scene_drafts, edit_feedback,
                   max_revisions, min_revisions, current_stage, decision,
                   rubric, quality_score, approved, write_log>>
    /\ UNCHANGED <<raw_output, analysis_results, libraryVars, prompt_configs>>
    /\ steps' = steps + 1
    /\ UNCHANGED <<revision_context, scene_metrics, llm_calls>>

\* advance_scene
AdvanceScene ==
    /\ pc = "advance_scene"
    /\ current_scene_index' = current_scene_index + 1
    /\ revision_count' = 0
    /\ pc' = "scene_writer"
    /\ UNCHANGED <<story_outline, scene_drafts, edit_feedback,
                   max_revisions, min_revisions, current_stage, decision,
                   rubric, quality_score, approved, write_log>>
    /\ UNCHANGED <<raw_output, analysis_results, libraryVars, prompt_configs>>
    /\ steps' = steps + 1
    /\ UNCHANGED <<revision_context, scene_metrics, llm_calls>>

\* mark_complete, then END
MarkComplete ==
    /\ pc = "mark_complete"
    /\ current_stage' = "complete"
    /\ pc' = "END"
    /\ UNCHANGED <<story_outline, scene_drafts, edit_feedback, current_scene_index,
                   revision_count, max_revisions, min_revisions, decision,
                   rubric, quality_score, approved, write_log>>
    /\ UNCHANGED <<raw_output, analysis_results, libraryVars, prompt_configs>>
    /\ steps' = steps + 1
    /\ UNCHANGED <<revision_context, scene_metrics, llm_calls>>

Next ==
    \/ PlotArchitect
    \/ BeatOutliner
    \/ SceneWriter
    \/ StyleEditor
    \/ Route
    \/ PrepareRevision
    \/ AdvanceScene
    \/ MarkComplete

Spec == Init /\ [][Next]_vars

\* every node of the graph returns and the graph runs the next node
FairSpec == Spec /\ WF_vars(Next)

(***************************************************************************)
(* The scoring under a configuration bundle: prompt_configs carries an     *)
(* AdvisoryPenaltyConfig built from the penalty_* fields of the run's      *)
(* PrototypeConfig (configs.py 215-222, 339-348); the rubric of an         *)
(* evaluation is then scored as in style_editor.py lines 317-318.          *)
(***************************************************************************)
AdvisoryPenaltyConfigs ==
    [opener_monotony : {4, 8}, length_monotony : {4}, passive_heavy : {2},
     structural_monotony : {2}, low_diversity : {4, 0}, vocabulary_basic : {2},
     cross_scene_per : {2, 5}, cross_scene_max : {3, 1}]

ConfigRubrics ==
    [word_count_in_range : {TRUE}, tense_consistent : {TRUE}, slop_ratio : {100},
     style_adherence : {3}, character_voice : {3}, outline_adherence : {3},
     pacing : {3, 4}, prose_quality : {3, 4},
     opener_monotony : BOOLEAN, length_monotony : {FALSE}, passive_heavy : {FALSE},
     structural_monotony : {FALSE}, low_diversity : BOOLEAN, vocabulary_basic : {FALSE},
     cross_scene_repetitions : 0..MaxRepetitions]

InitConfig ==
    /\ pc = "rubric_built"
    /\ rubric \in ConfigRubrics
    /\ quality_score = -1
    /\ approved = FALSE
    /\ story_outline = <<>>
    /\ scene_drafts = <<>>
    /\ edit_feedback = <<>>
    /\ current_scene_index = 0
    /\ revision_count = 0
    /\ max_revisions = 0
    /\ min_revisions = 0
    /\ current_stage = "writing"
    /\ decision = "none"
    /\ write_log = <<>>
    /\ prompt_configs \in [advisory_penalties : AdvisoryPenaltyConfigs]
    /\ revision_context = NoContext
    /\ scene_metrics = <<>>
    /\ steps = 0
    /\ llm_calls = <<>>
    /\ RateIdle
    /\ raw_output = NoOutput
    /\ analysis_results = NoAnalysis
    /\ call_args = NoCall
    /\ call_result = NoCall

SpecConfig == InitConfig /\ [][NextRubric]_vars

(***************************************************************************)
(* The graph with a generative model that may fail: invoke() raises in     *)
(* run_scene_writer (line 180) or in run_style_editor (line 245).  Neither *)
(* function nor the graph catches the exception, so the node returns no    *)
(* update and the run ends.                                                *)
(***************************************************************************)
\* run_scene_writer variant: the draft is stored before the model is called
SceneWriterRaises_draft_kept ==
    /\ pc = "scene_writer"
    /\ current_scene_index < Len(AllScenes(story_outline))
    /\ LET scene_id == AllScenes(story_outline)[current_scene_index + 1]
       IN  /\ revision_context' = RevisionContext(scene_id)
           /\ scene_drafts' = Append(scene_drafts, [scene_id |-> scene_id, prose |-> 0])
    /\ llm_calls' = Append(llm_calls, ModelCall("scene_writer", "invoke"))
    /\ steps' = steps + 1
    /\ pc' = "raised"
    /\ UNCHANGED <<story_outline, edit_feedback, current_scene_index,
                   revision_count, max_revisions, min_revisions, current_stage, decision,
                   rubric, quality_score, approved, write_log, scene_metrics>>
    /\ UNCHANGED <<raw_output, analysis_results, libraryVars, prompt_configs>>

\* run_scene_writer when invoke() raises: the prompt has been built, the call
\* was made, and the function is left at line 180
SceneWriterRaises ==
    /\ pc = "scene_writer"
    /\ current_scene_index < Len(AllScenes(story_outline))
    /\ LET scene_id == AllScenes(story_outline)[current_scene_index + 1]
       IN  revision_context' = RevisionContext(scene_id)
    /\ llm_calls' = Append(llm_calls, ModelCall("scene_writer", "invoke"))
    /\ steps' = steps + 1
    /\ pc' = "raised"
    /\ UNCHANGED <<story_outline, scene_drafts, edit_feedback, current_scene_index,
                   revision_count, max_revisions, min_revisions, current_stage, decision,
                   rubric, quality_score, approved, write_log, scene_metrics>>
    /\ UNCHANGED <<raw_output, analysis_results, libraryVars, prompt_configs>>

\* run_style_editor when invoke() raises: the analyzers have run, the call was
\* made, and the function is left at line 245
StyleEditorRaises ==
    /\ pc = "style_editor"
    /\ Last(scene_drafts).scene_id = AllScenes(story_outline)[current_scene_index + 1]
    /\ \E case \in EvalCases : analysis_results' = case[2]
    /\ llm_calls' = Append(llm_calls, ModelCall("style_editor", "invoke"))
    /\ steps' = steps + 1
    /\ pc' = "raised"
    /\ UNCHANGED <<story_outline, scene_drafts, edit_feedback, current_scene_index,
                   revision_count, max_revisions, min_revisions, current_stage, decision,
                   rubric, quality_score, approved, write_log, scene_metrics,
                   revision_context>>
    /\ UNCHANGED <<raw_output, libraryVars, prompt_configs>>

NextFailing ==
    \/ Next
    \/ SceneWriterRaises
    \/ StyleEditorRaises

SpecFailing == Init /\ [][NextFailing]_vars

(***************************************************************************)
(* The writer as a function of the state it is given: run_scene_writer on  *)
(* every revision counter, with a history that is empty or ends with an    *)
(* approved or rejected EditFeedback, as the tests of the writer call it.  *)
(***************************************************************************)
WriterFeedback ==
    { [scene_id |-> i, quality_score |-> compute_quality_score(DefaultRubric),
       approved |-> a, confirmed_slop |-> 0, rubric |-> DefaultRubric] :
      i \in 1..MaxScenes, a \in BOOLEAN }

InitWriter ==
    /\ pc = "scene_writer"
    /\ story_outline \in Outlines
    /\ scene_drafts \in { <<>>, <<[scene_id |-> 1, prose |-> 0]>> }
    /\ edit_feedback \in { <<>> } \cup { <<fb>> : fb \in WriterFeedback }
                              \cup { <<fa, fb>> : fa, fb \in WriterFeedback }
    /\ current_scene_index \in 0..(MaxScenes - 1)
    /\ revision_count \in 0..(MaxRevisions + 1)
    /\ max_revisions = MaxRevisions
    /\ min_revisions = 0
    /\ current_stage = "writing"
    /\ decision = "none"
    /\ rubric = DefaultRubric
    /\ quality_score = -1
    /\ approved = FALSE
    /\ write_log = <<>>
    /\ TraceIdle
    /\ raw_output = NoOutput
    /\ analysis_results = NoAnalysis
    /\ call_args = NoCall
    /\ call_result = NoCall

NextWriter == SceneWriter

SpecWriter == InitWriter /\ [][NextWriter]_vars

(***************************************************************************)
(* The conditional edge as a pure function: should_revise_or_advance       *)
(* called on a state holding at most one EditFeedback, as the unit tests   *)
(* of the pipeline call it.                                                *)
(***************************************************************************)
FeedbackInputs ==
    { [scene_id |-> 1, quality_score |-> compute_quality_score(DefaultRubric),
       approved |-> a, confirmed_slop |-> 0, rubric |-> DefaultRubric] : a \in BOOLEAN }

InitDecide ==
    /\ pc = "should_revise_or_advance"
    /\ story_outline \in Outlines
    /\ scene_drafts = <<>>
    /\ edit_feedback \in { <<>> } \cup { <<fb>> : fb \in FeedbackInputs }
    /\ current_scene_index \in 0..(MaxScenes - 1)
    /\ revision_count \in 0..(MaxRevisions + 1)
    /\ max_revisions \in 0..MaxRevisions
    /\ min_revisions \in 0..MaxRevisions
    /\ current_stage = "writing"
    /\ decision = "none"
    /\ rubric = DefaultRubric
    /\ quality_score = -1
    /\ approved = FALSE
    /\ write_log = <<>>
    /\ TraceIdle
    /\ raw_output = NoOutput
    /\ analysis_results = NoAnalysis
    /\ call_args = NoCall
    /\ call_result = NoCall

NextDecide == Route

SpecDecide == InitDecide /\ [][NextDecide]_vars

(***************************************************************************)
(* The evaluation as a pure computation: run_style_editor on the draft of  *)
(* a one-scene story, for every judge output the schema admits and every   *)
(* combination of the analyzers' results the caps and the gates read.      *)
(***************************************************************************)
JudgeOutputs ==
    [style_adherence : Scores, character_voice : Scores, outline_adherence : Scores,
     pacing : Scores, prose_quality : Scores, confirmed_slop : 0..MaxSlop]

Analyses ==
    [word_count_in_range : BOOLEAN, tense_consistent : BOOLEAN, slop_ratio : {100},
     opener_monotony : BOOLEAN, length_monotony : BOOLEAN, passive_heavy : {FALSE},
     structural_monotony : {FALSE}, low_diversity : BOOLEAN, vocabulary_basic : {FALSE},
     shared_phrases : {0}]

InitEditor ==
    /\ pc = "judge_returned"
    /\ story_outline = <<<<1>>, <<>>>>
    /\ scene_drafts = <<[scene_id |-> 1, prose |-> 1]>>
    /\ edit_feedback = <<>>
    /\ current_scene_index = 0
    /\ revision_count = 0
    /\ max_revisions = 0
    /\ min_revisions = 0
    /\ current_stage = "writing"
    /\ decision = "none"
    /\ rubric = DefaultRubric
    /\ quality_score = -1
    /\ approved = FALSE
    /\ write_log = <<0>>
    /\ TraceIdle
    /\ raw_output \in JudgeOutputs
    /\ analysis_results \in Analyses
    /\ call_args = NoCall
    /\ call_result = NoCall

\* run_style_editor from the return of the judge (line 255) to its own return
EvaluateDraft ==
    /\ pc = "judge_returned"
    /\ run_style_editor(raw_output, analysis_results)
    /\ UNCHANGED steps

NextEditor == EvaluateDraft

SpecEditor == InitEditor /\ [][NextEditor]_vars

(***************************************************************************)
(* utils/text_analysis/basics.py: check_word_count.  A text is a sequence  *)
(* of characters, "w" for any non-whitespace character and " " for any     *)
(* whitespace character.  The tolerance is held in hundredths and the      *)
(* deviation in thousandths; deviation * 1000 is never halfway between two *)
(* integers for targets below 16.                                          *)
(***************************************************************************)
Whitespace == {" "}

Chars == {"w", " "}

\* len(prose.split()): the number of maximal runs of non-whitespace characters
WordCount(prose) ==
    Cardinality({i \in DOMAIN prose :
                    /\ prose[i] \notin Whitespace
                    /\ (i = 1 \/ prose[i - 1] \in Whitespace)})

\* round(deviation, 3), in thousandths
RoundedDeviation(actual, target) ==
    LET k == actual - target
        m == (2000 * (IF k < 0 THEN -k ELSE k) + target) \div (2 * target)
    IN  IF k < 0 THEN -m ELSE m

\* check_word_count variant: a deviation equal to the tolerance is out of range
check_word_count_exclusive(prose, target, tolerance) ==
    LET actual == WordCount(prose)
    IN  IF target <= 0
        THEN [actual |-> actual, target |-> target, within_tolerance |-> TRUE,
              deviation |-> 0]
        ELSE LET k == actual - target
             IN  [actual |-> actual, target |-> target,
                  within_tolerance |-> 100 * (IF k < 0 THEN -k ELSE k) < tolerance * target,
                  deviation |-> RoundedDeviation(actual, target)]

\* check_word_count: abs((actual - target) / target) <= tolerance
check_word_count(prose, target, tolerance) ==
    LET actual == WordCount(prose)
    IN  IF target <= 0
        THEN [actual |-> actual, target |-> target, within_tolerance |-> TRUE,
              deviation |-> 0]
        ELSE LET k == actual - target
             IN  [actual |-> actual, target |-> target,
                  within_tolerance |-> 100 * (IF k < 0 THEN -k ELSE k) <= tolerance * target,
                  deviation |-> RoundedDeviation(actual, target)]

\* every text of at most MaxProseLen characters
Proses == UNION { [1..n -> Chars] : n \in 0..MaxProseLen }

\* " ".join(["word"] * n)
JoinedWords(n) == [i \in 1..(2 * n - 1) |-> IF i % 2 = 1 THEN "w" ELSE " "]

\* the texts around the limits of a 1000-word target
LongProses == { JoinedWords(n) : n \in {749, 750, 1250, 1251} }

\* SceneOutline.target_word_count defaults to 1000
Targets == ((-1)..MaxTarget) \cup {1000}

\* tolerance = 0.25 by default
Tolerances == {0, 25, 50}

InitWordCount ==
    /\ pc = "check_word_count"
    /\ call_args \in [prose : Proses \cup LongProses, target : Targets,
                       tolerance : Tolerances]
    /\ call_result = NoCall
    /\ rubric = DefaultRubric
    /\ quality_score = -1
    /\ approved = FALSE
    /\ PipelineIdle

\* check_word_count(prose, target, tolerance) returns its WordCountResult
CheckWordCount ==
    /\ pc = "check_word_count"
    /\ call_result' = check_word_count(call_args.prose, call_args.target,
                                       call_args.tolerance)
    /\ pc' = "word_count_checked"
    /\ UNCHANGED <<call_args, rubric, quality_score, approved, pipelineVars, rateVars,
                   raw_output, analysis_results>>

NextWordCount == CheckWordCount

SpecWordCount == InitWordCount /\ [][NextWordCount]_vars

(***************************************************************************)
(* utils/text_analysis/repetition.py: detect_cross_scene_repetition.  A    *)
(* text and a phrase are sequences of characters.  zipf_frequency belongs  *)
(* to the optional wordfreq package: has_wordfreq says whether its import  *)
(* succeeded, CommonWords are the words it rates above 5.0.                *)
(***************************************************************************)
min_ngram == 4
max_ngram == 7

\* characters in code point order
Alphabet == <<" ", ",", "-", "A", "a", "b", "c", "d", "e", "f", "g", "h", "i",
              "j", "k", "l", "w", "x", "y", "z">>

Letters == <<"a", "b", "c", "d", "e", "f", "g", "h", "i", "j", "k", "l">>

\* the characters of ".,!?;:\"'()-" and the two dashes that occur in the texts
Punctuation == {",", "-"}

CommonWords == { <<"a">>, <<"b">>, <<"c">>, <<"d">> }

CharIndex(c) == CHOOSE i \in DOMAIN Alphabet : Alphabet[i] = c

\* str.lower()
lower(text) == [i \in DOMAIN text |-> IF text[i] = "A" THEN "a" ELSE text[i]]

\* str.split(): the maximal runs of non-whitespace characters, in order
RECURSIVE SplitFrom(_, _, _)
SplitFrom(text, word, words) ==
    IF text = <<>>
    THEN IF word = <<>> THEN words ELSE Append(words, word)
    ELSE IF Head(text) \in Whitespace
         THEN SplitFrom(Tail(text), <<>>,
                        IF word = <<>> THEN words ELSE Append(words, word))
         ELSE SplitFrom(Tail(text), Append(word, Head(text)), words)

split(text) == SplitFrom(text, <<>>, <<>>)

\* w.strip(punctuation)
RECURSIVE lstrip(_)
lstrip(w) == IF w # <<>> /\ Head(w) \in Punctuation THEN lstrip(Tail(w)) ELSE w

RECURSIVE rstrip(_)
rstrip(w) ==
    IF w # <<>> /\ w[Len(w)] \in Punctuation THEN rstrip(SubSeq(w, 1, Len(w) - 1)) ELSE w

strip(w) == rstrip(lstrip(w))

\* " ".join(words)
RECURSIVE join(_)
join(words) ==
    IF words = <<>> THEN <<>>
    ELSE IF Len(words) = 1 THEN words[1]
    ELSE words[1] \o <<" ">> \o join(Tail(words))

NonEmpty(w) == w # <<>>

\* the words of _extract_ngrams: lowercased, punctuation stripped, empty ones dropped
Words(text) ==
    LET tokens == split(lower(text))
    IN  SelectSeq([i \in DOMAIN tokens |-> strip(tokens[i])], NonEmpty)

\* _extract_ngrams
_extract_ngrams(text, min_n, max_n) ==
    LET words == Words(text)
    IN  { join(SubSeq(words, w[2], w[2] + w[1] - 1)) :
              w \in { v \in (min_n..max_n) \X (1..Len(words)) :
                          v[2] + v[1] - 1 <= Len(words) } }

\* _is_common_collocation
_is_common_collocation(ngram, has_wordfreq) ==
    IF ~has_wordfreq THEN FALSE
    ELSE LET words == split(ngram)
         IN  \A k \in DOMAIN words : words[k] \in CommonWords

\* s in t
Substring(s, t) == \E k \in 0..(Len(t) - Len(s)) : SubSeq(t, k + 1, k + Len(s)) = s

\* s < t for strings
LexLess(s, t) ==
    \E i \in 1..(Len(s) + 1) :
        /\ i <= Len(t)
        /\ SubSeq(s, 1, i - 1) = SubSeq(t, 1, i - 1)
        /\ (i = Len(s) + 1 \/ CharIndex(s[i]) < CharIndex(t[i]))

\* sorted(sorted(shared), key=len, reverse=True): longest first, equal
\* lengths in ascending order
Before(p, q) == Len(p) > Len(q) \/ (Len(p) = Len(q) /\ LexLess(p, q))

RECURSIVE SortedPhrases(_)
SortedPhrases(S) ==
    IF S = {} THEN <<>>
    ELSE LET first == CHOOSE p \in S : \A q \in S \ {p} : Before(p, q)
         IN  <<first>> \o SortedPhrases(S \ {first})

\* the loop of lines 97-99
RECURSIVE Deduplicate(_, _)
Deduplicate(phrases, deduplicated) ==
    IF phrases = <<>> THEN deduplicated
    ELSE LET phrase == Head(phrases)
         IN  Deduplicate(Tail(phrases),
                         IF \E k \in DOMAIN deduplicated : Substring(phrase, deduplicated[k])
                         THEN deduplicated
                         ELSE Append(deduplicated, phrase))

\* not text.strip()
IsBlank(text) == \A i \in DOMAIN text : text[i] \in Whitespace

\* detect_cross_scene_repetition with the default n-gram range
detect_cross_scene_repetition(current_prose, prior_scene_proses, has_wordfreq) ==
    IF prior_scene_proses = <<>> \/ IsBlank(current_prose)
    THEN [repeated_phrases |-> <<>>, repeated_count |-> 0]
    ELSE LET current_ngrams == _extract_ngrams(current_prose, min_ngram, max_ngram)
             prior_ngrams ==
                 UNION { _extract_ngrams(prior_scene_proses[k], min_ngram, max_ngram) :
                           k \in { j \in DOMAIN prior_scene_proses :
                                       ~IsBlank(prior_scene_proses[j]) } }
             shared == current_ngrams \cap prior_ngrams
             repeated == { ng \in shared : ~_is_common_collocation(ng, has_wordfreq) }
             deduplicated == Deduplicate(SortedPhrases(repeated), <<>>)
         IN  [repeated_phrases |-> deduplicated, repeated_count |-> Len(deduplicated)]

\* the words a b c ... of a shared run of L words
Run(L) == [i \in 1..L |-> <<Letters[i]>>]

\* the run as it may be written: first word capitalised, a dash after the
\* second word, a comma after the last word
Decorate(tokens) ==
    LET written == [tokens EXCEPT ![1] = <<"A">>, ![Len(tokens)] = @ \o <<",">>]
    IN  SubSeq(written, 1, 2) \o << <<"-">> >> \o SubSeq(written, 3, Len(written))

\* texts of the current scene that hold the run, followed by another word
CurrentRunTexts(L) ==
    { join(before \o (IF decorated THEN Decorate(Run(L)) ELSE Run(L)) \o << <<"x">> >>) :
          before \in { <<>>, << <<"w">> >> }, decorated \in BOOLEAN }

\* texts of a prior scene that hold the run, preceded by another word
PriorRunTexts(L) ==
    { join(<< <<"y">> >> \o (IF decorated THEN Decorate(Run(L)) ELSE Run(L)) \o after) :
          after \in { <<>>, << <<"z">> >> }, decorated \in BOOLEAN }

\* a prior scene that shares nothing with the current one, and a blank one
UnrelatedText == join(<< <<"y">>, <<"z">>, <<"y">>, <<"z">>, <<"y">> >>)

BlankText == <<" ">>

RunInputs ==
    UNION { { [current_prose |-> c, prior_scene_proses |-> ps, has_wordfreq |-> h] :
                  c \in CurrentRunTexts(L),
                  ps \in UNION { { <<p>>, <<UnrelatedText, p>>, <<BlankText, p>> } :
                                    p \in PriorRunTexts(L) },
                  h \in BOOLEAN } : L \in min_ngram..MaxRun }

\* every text of 0 or min_ngram..MaxShortWords words over a common and a rare word
ShortTexts ==
    { join(ws) : ws \in UNION { [1..n -> { <<"a">>, <<"e">> }] :
                                  n \in {0} \cup (min_ngram..MaxShortWords) } }

ShortInputs ==
    [current_prose : ShortTexts,
     prior_scene_proses : { <<>> } \cup { <<p>> : p \in ShortTexts },
     has_wordfreq : BOOLEAN]

InitRepetition ==
    /\ pc = "detect_cross_scene_repetition"
    /\ call_args \in RunInputs \cup ShortInputs
    /\ call_result = NoCall
    /\ rubric = DefaultRubric
    /\ quality_score = -1
    /\ approved = FALSE
    /\ PipelineIdle

\* detect_cross_scene_repetition(current_prose, prior_scene_proses) returns
DetectRepetition ==
    /\ pc = "detect_cross_scene_repetition"
    /\ call_result' = detect_cross_scene_repetition(call_args.current_prose,
                                                    call_args.prior_scene_proses,
                                                    call_args.has_wordfreq)
    /\ pc' = "repetition_detected"
    /\ UNCHANGED <<call_args, rubric, quality_score, approved, pipelineVars, rateVars,
                   raw_output, analysis_results>>

NextRepetition == DetectRepetition

SpecRepetition == InitRepetition /\ [][NextRepetition]_vars

(***************************************************************************)
(* utils/text_analysis/context.py: build_story_allowlist.  The state holds *)
(* a roster, a world and a brief, each present or absent (None or no key); *)
(* names and themes are sequences of characters.                           *)
(***************************************************************************)
\* str.strip(): leading and trailing whitespace removed
RECURSIVE strip_whitespace(_)
strip_whitespace(text) ==
    IF text = <<>> THEN text
    ELSE IF Head(text) \in Whitespace THEN strip_whitespace(Tail(text))
    ELSE IF text[Len(text)] \in Whitespace
         THEN strip_whitespace(SubSeq(text, 1, Len(text) - 1))
         ELSE text

\* the terms of lines 30-37 and 42-49: the full name and its longer parts
NameTerms(names) ==
    UNION { LET name == strip_whitespace(names[k])
                parts == split(name)
            IN  IF name = <<>> THEN {}
                ELSE { lower(name) } \cup
                     { lower(strip_whitespace(parts[i])) :
                           i \in { j \in DOMAIN parts : Len(strip_whitespace(parts[j])) > 2 } }
            : k \in DOMAIN names }

\* NameTerms variant: a part of two characters is long enough
NameTerms_two_chars(names) ==
    UNION { LET name == strip_whitespace(names[k])
                parts == split(name)
            IN  IF name = <<>> THEN {}
                ELSE { lower(name) } \cup
                     { lower(strip_whitespace(parts[i])) :
                           i \in { j \in DOMAIN parts : Len(strip_whitespace(parts[j])) > 1 } }
            : k \in DOMAIN names }

\* the terms of lines 54-58: the longer words of every theme
ThemeTerms(themes) ==
    UNION { LET words == split(themes[k])
            IN  { lower(strip_whitespace(words[i])) :
                      i \in { j \in DOMAIN words :
                                  Len(lower(strip_whitespace(words[j]))) > 3 } }
            : k \in DOMAIN themes }

\* build_story_allowlist variant: name parts of two characters are added
build_story_allowlist_short_parts(state) ==
    (IF state.character_roster.present
     THEN NameTerms_two_chars(state.character_roster.characters) ELSE {})
    \cup (IF state.world_context.present
          THEN NameTerms_two_chars(state.world_context.locations) ELSE {})
    \cup (IF state.story_brief.present
          THEN ThemeTerms(state.story_brief.themes) ELSE {})

\* build_story_allowlist
build_story_allowlist(state) ==
    (IF state.character_roster.present
     THEN NameTerms(state.character_roster.characters) ELSE {})
    \cup (IF state.world_context.present
          THEN NameTerms(state.world_context.locations) ELSE {})
    \cup (IF state.story_brief.present
          THEN ThemeTerms(state.story_brief.themes) ELSE {})

\* the characters of the names and themes: a capital, a small letter, a blank
NameChars == {"A", "b", " "}

Names == UNION { [1..n -> NameChars] : n \in 0..MaxNameLen }

Themes == UNION { [1..n -> NameChars] : n \in 0..MaxThemeLen }

\* state.get("character_roster"): absent, empty, or one character
Rosters ==
    { [present |-> FALSE, characters |-> <<>>], [present |-> TRUE, characters |-> <<>>] }
    \cup { [present |-> TRUE, characters |-> <<n>>] : n \in Names }

\* state.get("world_context"): absent, the location "Ab", or the locations
\* "bbb Ab" and "b"
Worlds ==
    { [present |-> FALSE, locations |-> <<>>],
      [present |-> TRUE, locations |-> << <<"A", "b">> >>],
      [present |-> TRUE, locations |-> << <<"b", "b", "b", " ", "A", "b">>, <<"b">> >>] }

\* state.get("story_brief"): absent, without themes, or with one theme
Briefs ==
    { [present |-> FALSE, themes |-> <<>>], [present |-> TRUE, themes |-> <<>>] }
    \cup { [present |-> TRUE, themes |-> <<t>>] : t \in Themes }

InitAllowlist ==
    /\ pc = "build_story_allowlist"
    /\ call_args \in [character_roster : Rosters, world_context : Worlds,
                       story_brief : Briefs]
    /\ call_result = NoCall
    /\ rubric = DefaultRubric
    /\ quality_score = -1
    /\ approved = FALSE
    /\ PipelineIdle

\* build_story_allowlist(state) returns its set of terms
BuildAllowlist ==
    /\ pc = "build_story_allowlist"
    /\ call_result' = build_story_allowlist(call_args)
    /\ pc' = "allowlist_built"
    /\ UNCHANGED <<call_args, rubric, quality_score, approved, pipelineVars, rateVars,
                   raw_output, analysis_results>>

NextAllowlist == BuildAllowlist

SpecAllowlist == InitAllowlist /\ [][NextAllowlist]_vars

(***************************************************************************)
(* utils/text_analysis/structure.py: compute_prose_structure, and the      *)
(* pacing criteria that run_style_editor reports to the judge from its     *)
(* result.  What spaCy returns for a text is given: the sentences of the   *)
(* document, each with its number of word tokens (neither space nor        *)
(* punctuation) and the part of speech of its first word token, "" for a   *)
(* sentence without one.  Ratios are held in thousandths.  The passive     *)
(* voice and dependency fields, which the pacing criteria do not read, are *)
(* left out.                                                               *)
(***************************************************************************)
MaxSentences == 3       \* documents have 0..MaxSentences sentences

opener_monotony_threshold == 300    \* ProseStructureConfig, 0.30
length_cv_threshold == 300          \* ProseStructureConfig, 0.30

SentenceLengths == {1, 7, 13}

OpenerTags == {"PRON", "NOUN"}

Sentences ==
    { [length |-> 0, opener_pos |-> ""] }
        \cup { [length |-> l, opener_pos |-> t] : l \in SentenceLengths, t \in OpenerTags }

Docs == UNION { [1..n -> Sentences] : n \in 0..MaxSentences }

\* ProseStructureResult() with its field defaults
ProseStructureResult ==
    [sentence_count |-> 0, top_opener_ratio |-> 0, opener_monotony |-> FALSE,
     sent_length_cv |-> 0, length_monotony |-> FALSE]

RECURSIVE SumOfLengths(_)
SumOfLengths(sentences) ==
    IF sentences = <<>> THEN 0
    ELSE sentences[1].length + SumOfLengths(Tail(sentences))

RECURSIVE SumOfSquares(_)
SumOfSquares(sentences) ==
    IF sentences = <<>> THEN 0
    ELSE sentences[1].length * sentences[1].length + SumOfSquares(Tail(sentences))

\* opener_pos_counts.most_common(1)[0][1], 0 for an empty counter
TopOpenerCount(sentences) ==
    LET count(t) == Cardinality({i \in DOMAIN sentences : sentences[i].opener_pos = t})
    IN  IF \A t \in OpenerTags : count(t) = 0 THEN 0
        ELSE CHOOSE c \in 1..Len(sentences) :
                 /\ \E t \in OpenerTags : count(t) = c
                 /\ \A t \in OpenerTags : count(t) <= c

\* round(length_std / length_mean, 3) in thousandths, where the squared ratio
\* is v / (s * s): v = n * sum(l * l) - sum(l) ** 2 and s = sum(l) > 0
RoundedCV(v, s) ==
    LET t  == (v * 1000000) \div (s * s)
        r  == (v * 1000000) % (s * s)
        k0 == CHOOSE k \in 0..2000 : k * k <= t /\ t < (k + 1) * (k + 1)
        t4 == 4 * t + (4 * r) \div (s * s)
    IN  IF t4 >= (2 * k0 + 1) * (2 * k0 + 1) THEN k0 + 1 ELSE k0

\* compute_prose_structure(prose, config)
compute_prose_structure(doc, nlp_available) ==
    IF ~nlp_available
    THEN ProseStructureResult                 \* nlp is None
    ELSE IF Len(doc) = 0
    THEN ProseStructureResult                 \* sentence_count == 0
    ELSE LET n  == Len(doc)
             s  == SumOfLengths(doc)
             v  == n * SumOfSquares(doc) - s * s
             top_count == TopOpenerCount(doc)
         IN  [sentence_count   |-> n,
              top_opener_ratio |-> (2000 * top_count + n) \div (2 * n),
              opener_monotony  |-> 1000 * top_count > opener_monotony_threshold * n,
              sent_length_cv   |-> IF s > 0 THEN RoundedCV(v, s) ELSE 0,
              length_monotony  |->
                  IF s > 0
                  THEN 1000000 * v < length_cv_threshold * length_cv_threshold * s * s
                  ELSE 0 < length_cv_threshold]

InitStructure ==
    /\ pc = "compute_prose_structure"
    /\ call_args \in [doc : Docs, nlp_available : BOOLEAN]
    /\ call_result = NoCall
    /\ rubric = DefaultRubric
    /\ quality_score = -1
    /\ approved = FALSE
    /\ PipelineIdle

\* run_style_editor, lines 96-97, 203-217 and 299-300: the structure of the
\* prose is computed, the two pacing criteria are reported to the judge and
\* the flags are stored in the rubric
PreEvaluate ==
    /\ pc = "compute_prose_structure"
    /\ LET structure_result   == compute_prose_structure(call_args.doc, call_args.nlp_available)
           pacing_cv_pass     == structure_result.sent_length_cv > length_cv_threshold
           pacing_opener_pass == ~structure_result.opener_monotony
       IN  /\ call_result' = [structure_result |-> structure_result,
                              criterion_a |-> IF pacing_cv_pass THEN "PASS" ELSE "FAIL",
                              criterion_b |-> IF pacing_opener_pass THEN "PASS" ELSE "FAIL"]
           /\ rubric' = [rubric EXCEPT !.opener_monotony = structure_result.opener_monotony,
                                       !.length_monotony = structure_result.length_monotony]
    /\ pc' = "criteria_reported"
    /\ UNCHANGED <<call_args, quality_score, approved, pipelineVars, rateVars,
                   raw_output, analysis_results>>

NextStructure == PreEvaluate

SpecStructure == InitStructure /\ [][NextStructure]_vars

(***************************************************************************)
(* agents/base.py: the sliding-window throttle _wait_for_rate_limit and    *)
(* the retry loop of invoke(), run by two concurrent callers.  Time is     *)
(* held in half seconds.  The body of `with _rate_lock` is two steps:      *)
(* the lock is taken, the clock read, the expired timestamps dropped and   *)
(* the wait computed (lines 48-55); then, after the sleep, the clock is    *)
(* read again, the timestamp appended and the lock released (lines 59-63). *)
(* Time passes between any two steps.                                      *)
(***************************************************************************)
MaxAdmissions == 10     \* admissions of the throttle in one behaviour
MaxClock == 121         \* the clock stops at MaxClock half seconds

_RPM_LIMIT == 9
_MAX_RETRIES == 3
RateWindow == 120       \* the 60 of lines 50 and 54, in half seconds
RateCushion == 1        \* the 0.5 of line 54
DefaultRetryDelay == 120    \* the 60.0 of _parse_retry_delay

\* the time that passes in one step of the clock, besides the end of a sleep
TickSteps == {60}

\* two threads call invoke()
CallerIds == {1, 2}

\* what runnable.invoke does: it returns, or raises an error whose message
\* names a rate limit, with or without a retry_delay { seconds: n }, or another error
Responses ==
    { [kind |-> "ok", retry_delay |-> {}],
      [kind |-> "429", retry_delay |-> {29}],
      [kind |-> "ResourceExhausted", retry_delay |-> {}],
      [kind |-> "other", retry_delay |-> {}] }

\* "429" in error_str or "ResourceExhausted" in error_str
IsRateLimit(response) == response.kind \in {"429", "ResourceExhausted"}

\* _parse_retry_delay(error_message), in half seconds
_parse_retry_delay(response) ==
    IF response.retry_delay # {}
    THEN 2 * ((CHOOSE seconds \in response.retry_delay : TRUE) + 1)
    ELSE DefaultRetryDelay

\* while _call_timestamps and _call_timestamps[0] <= now - 60: popleft()
RECURSIVE DropExpired(_, _)
DropExpired(timestamps, now) ==
    IF timestamps # <<>> /\ timestamps[1] <= now - RateWindow
    THEN DropExpired(Tail(timestamps), now)
    ELSE timestamps

\* no exception is bound to `e`
NoError == [kind |-> "none", retry_delay |-> {}]

\* a caller outside invoke(), and the locals of invoke() as a call starts
IdleCaller == [pc |-> "idle", attempt |-> 0, wake |-> 0, e |-> NoError]

InitInvoke ==
    /\ pc = "invoke"
    /\ clock = 0
    /\ _call_timestamps = <<>>
    /\ _rate_lock = 0
    /\ _daily_call_count = 0
    /\ admitted = <<>>
    /\ callers = [c \in CallerIds |-> IdleCaller]
    /\ rubric = DefaultRubric
    /\ quality_score = -1
    /\ approved = FALSE
    /\ story_outline = <<>>
    /\ scene_drafts = <<>>
    /\ edit_feedback = <<>>
    /\ current_scene_index = 0
    /\ revision_count = 0
    /\ max_revisions = 0
    /\ min_revisions = 0
    /\ current_stage = "planning"
    /\ decision = "none"
    /\ write_log = <<>>
    /\ prompt_configs = DefaultConfigs
    /\ revision_context = NoContext
    /\ scene_metrics = <<>>
    /\ steps = 0
    /\ llm_calls = <<>>
    /\ raw_output = NoOutput
    /\ analysis_results = NoAnalysis
    /\ call_args = NoCall
    /\ call_result = NoCall

\* everything but the limiter and its callers
notRateVars ==
    <<pc, rubric, quality_score, approved, pipelineVars, raw_output, analysis_results,
      call_args, call_result>>

\* a caller enters invoke(): attempt 0 of a new call
Call(c) ==
    /\ callers[c].pc \in {"idle", "returned", "raised"}
    /\ Len(admitted) < MaxAdmissions
    /\ callers' = [callers EXCEPT ![c] = [IdleCaller EXCEPT !.pc = "wait_lock"]]
    /\ UNCHANGED <<clock, _call_timestamps, _rate_lock, _daily_call_count, admitted>>
    /\ UNCHANGED notRateVars

\* _wait_for_rate_limit variant: the caller does not sleep at the cap
Acquire_no_sleep(c) ==
    /\ callers[c].pc = "wait_lock"
    /\ _rate_lock = 0
    /\ Len(admitted) < MaxAdmissions
    /\ LET now  == clock
           live == DropExpired(_call_timestamps, now)
       IN  /\ _call_timestamps' = live
           /\ callers' = [callers EXCEPT ![c].pc = "in_lock", ![c].wake = now]
    /\ _rate_lock' = c
    /\ UNCHANGED <<clock, _daily_call_count, admitted>>
    /\ UNCHANGED notRateVars

\* _wait_for_rate_limit, lines 48-55: the lock is taken; with _RPM_LIMIT
\* timestamps left in the window the caller will sleep until the oldest one
\* is 60.5 seconds old
Acquire(c) ==
    /\ callers[c].pc = "wait_lock"
    /\ _rate_lock = 0
    /\ Len(admitted) < MaxAdmissions
    /\ LET now  == clock
           live == DropExpired(_call_timestamps, now)
           wait_seconds == RateWindow - (now - live[1]) + RateCushion
       IN  /\ _call_timestamps' = live
           /\ callers' = [callers EXCEPT
                  ![c].pc = "in_lock",
                  ![c].wake = IF Len(live) >= _RPM_LIMIT /\ wait_seconds > 0
                              THEN now + wait_seconds
                              ELSE now]
    /\ _rate_lock' = c
    /\ UNCHANGED <<clock, _daily_call_count, admitted>>
    /\ UNCHANGED notRateVars

\* _wait_for_rate_limit, lines 59-63: the sleep is over, the time of the
\* admission is appended and the lock released; the caller goes on to
\* runnable.invoke
Admit(c) ==
    /\ callers[c].pc = "in_lock"
    /\ _rate_lock = c
    /\ clock >= callers[c].wake
    /\ _call_timestamps' = Append(_call_timestamps, clock)
    /\ _daily_call_count' = _daily_call_count + 1
    /\ admitted' = Append(admitted, clock)
    /\ _rate_lock' = 0
    /\ callers' = [callers EXCEPT ![c].pc = "calling"]
    /\ UNCHANGED clock
    /\ UNCHANGED notRateVars

\* invoke variant: every error is retried
Respond_retry_any(c) ==
    /\ callers[c].pc = "calling"
    /\ \E response \in Responses :
           IF response.kind = "ok"
           THEN callers' = [callers EXCEPT ![c].pc = "returned"]
           ELSE IF callers[c].attempt < _MAX_RETRIES - 1
           THEN callers' = [callers EXCEPT
                    ![c].pc = "backoff",
                    ![c].e = response,
                    ![c].wake = clock + _parse_retry_delay(response)]
           ELSE callers' = [callers EXCEPT ![c].pc = "raised", ![c].e = response]
    /\ UNCHANGED <<clock, _call_timestamps, _rate_lock, _daily_call_count, admitted>>
    /\ UNCHANGED notRateVars

\* invoke, lines 123-139: runnable.invoke returns or raises; a rate-limit
\* error before the last attempt starts a sleep of the parsed delay, any
\* other error and the rate-limit error of the last attempt are re-raised
Respond(c) ==
    /\ callers[c].pc = "calling"
    /\ \E response \in Responses :
           IF response.kind = "ok"
           THEN callers' = [callers EXCEPT ![c].pc = "returned"]
           ELSE IF IsRateLimit(response) /\ callers[c].attempt < _MAX_RETRIES - 1
           THEN callers' = [callers EXCEPT
                    ![c].pc = "backoff",
                    ![c].e = response,
                    ![c].wake = clock + _parse_retry_delay(response)]
           ELSE callers' = [callers EXCEPT ![c].pc = "raised", ![c].e = response]
    /\ UNCHANGED <<clock, _call_timestamps, _rate_lock, _daily_call_count, admitted>>
    /\ UNCHANGED notRateVars

\* invoke, lines 137-138 and 121-122: time.sleep(delay) is over, the except
\* block is left and the loop continues with the next attempt
Retry(c) ==
    /\ callers[c].pc = "backoff"
    /\ clock >= callers[c].wake
    /\ callers' = [callers EXCEPT ![c].pc = "wait_lock",
                                  ![c].attempt = callers[c].attempt + 1,
                                  ![c].e = NoError]
    /\ UNCHANGED <<clock, _call_timestamps, _rate_lock, _daily_call_count, admitted>>
    /\ UNCHANGED notRateVars

\* the times at which a sleeping caller wakes
PendingWakes ==
    { callers[c].wake : c \in { d \in CallerIds : /\ callers[d].pc \in {"in_lock", "backoff"}
                                                   /\ callers[d].wake > clock } }

\* time passes: to the end of a sleep, or by one step of the clock
Tick ==
    /\ \E t \in PendingWakes \cup { clock + d : d \in TickSteps } :
           /\ t <= MaxClock
           /\ clock' = t
    /\ UNCHANGED <<_call_timestamps, _rate_lock, _daily_call_count, admitted, callers>>
    /\ UNCHANGED notRateVars

NextInvoke ==
    \/ \E c \in CallerIds : Call(c)
    \/ \E c \in CallerIds : Acquire(c)
    \/ \E c \in CallerIds : Admit(c)
    \/ \E c \in CallerIds : Respond(c)
    \/ \E c \in CallerIds : Retry(c)
    \/ Tick

SpecInvoke == InitInvoke /\ [][NextInvoke]_vars

(***************************************************************************)
(* Properties.                                                             *)
(***************************************************************************)
Abs(x) == IF x < 0 THEN -x ELSE x

Decided == decision # "none" /\ edit_feedback # <<>>

NumUnits == Len(AllScenes(story_outline))

\* number of run_scene_writer calls for the unit at index i
GenerationCount(i) == Cardinality({k \in DOMAIN write_log : write_log[k] = i})

\* number of EditFeedback entries for the unit at index i
EvaluationCount(i) ==
    Cardinality({k \in DOMAIN edit_feedback :
                    edit_feedback[k].scene_id = AllScenes(story_outline)[i + 1]})

\* C1: the decision is "revise" whenever revision_count < min_revisions,
\* whatever the approval, the budget and the position of the unit.
C1_ForcedRevise ==
    (Decided /\ revision_count < min_revisions) => decision = "revise"

\* C2: no unit is advanced past, and the run is not completed, while the
\* unit's revision counter is below min_revisions; every finalized unit has
\* been regenerated at least min_revisions times.
C2_MinRevisionsHonoured ==
    /\ pc \in {"advance_scene", "mark_complete", "END"} => revision_count >= min_revisions
    /\ \A i \in 0..(NumUnits - 1) :
          (i < current_scene_index \/ pc = "END") => GenerationCount(i) >= min_revisions + 1

\* C3: a rejected unit with revision budget left is revised, for every unit
\* position and every min_revisions.
C3_ReviseWhenRejected ==
    (Decided /\ ~Last(edit_feedback).approved /\ revision_count < max_revisions)
        => decision = "revise"

W_C3 ==
    /\ Decided
    /\ ~Last(edit_feedback).approved
    /\ revision_count < max_revisions
    /\ revision_count >= min_revisions
    /\ current_scene_index + 1 = NumUnits
    /\ decision = "revise"

\* C4: with the minimum met and the unit approved or the budget used up, the
\* decision is never "revise": "next_scene" exactly when a next unit exists,
\* "complete" otherwise.
C4_AdvanceOrComplete ==
    (Decided /\ revision_count >= min_revisions
             /\ (Last(edit_feedback).approved \/ revision_count >= max_revisions))
        => /\ decision # "revise"
           /\ decision = "next_scene" <=> current_scene_index + 1 < NumUnits
           /\ decision = "complete" <=> ~(current_scene_index + 1 < NumUnits)

W_C4 ==
    /\ Decided
    /\ ~Last(edit_feedback).approved
    /\ max_revisions > 0
    /\ revision_count = max_revisions
    /\ revision_count >= min_revisions
    /\ current_scene_index + 1 < NumUnits
    /\ decision = "next_scene"

C6_BudgetBound ==
    min_revisions <= max_revisions =>
        /\ revision_count <= max_revisions
        /\ \A i \in 0..(NumUnits - 1) :
              /\ GenerationCount(i) <= max_revisions + 1
              /\ EvaluationCount(i) <= max_revisions + 1

W_C6 ==
    /\ pc = "advance_scene"
    /\ min_revisions <= max_revisions
    /\ max_revisions > 0
    /\ revision_count = max_revisions
    /\ ~Last(edit_feedback).approved
    /\ GenerationCount(current_scene_index) = max_revisions + 1
    /\ EvaluationCount(current_scene_index) = max_revisions + 1

Scored == pc = "rubric_scored"

AnyDimensionIsOne ==
    \/ rubric.style_adherence = 1 \/ rubric.character_voice = 1
    \/ rubric.outline_adherence = 1 \/ rubric.pacing = 1 \/ rubric.prose_quality = 1

AllDimensionsAre(v) ==
    /\ rubric.style_adherence = v /\ rubric.character_voice = v
    /\ rubric.outline_adherence = v /\ rubric.pacing = v /\ rubric.prose_quality = v

NoAdvisorySignal ==
    /\ \A f \in AdvisoryFlags : ~rubric[f]
    /\ rubric.cross_scene_repetitions = 0

\* C7: compute_approved() is true iff the score is at least 0.70, no
\* dimension equals 1 and both deterministic gates hold.
C7_ApprovedIff ==
    Scored =>
        (approved <=> /\ quality_score >= 70
                      /\ ~AnyDimensionIsOne
                      /\ rubric.word_count_in_range
                      /\ rubric.tense_consistent)

\* a single dimension at 1 among 4s: the score passes, the veto rejects
W_C7 ==
    /\ Scored
    /\ rubric.character_voice = 1
    /\ rubric.style_adherence = 4 /\ rubric.outline_adherence = 4
    /\ rubric.pacing = 4 /\ rubric.prose_quality = 4
    /\ rubric.word_count_in_range /\ rubric.tense_consistent
    /\ quality_score >= 70
    /\ ~approved

\* C8: a rubric with all five dimensions at 4 and both gates true is
\* approved for every combination of advisory flags, repetition count and
\* slop ratio.
C8_AdvisoryNeverFails ==
    (Scored /\ AllDimensionsAre(4)
            /\ rubric.word_count_in_range /\ rubric.tense_consistent)
        => approved

W_C8 ==
    /\ Scored
    /\ AllDimensionsAre(4)
    /\ rubric.word_count_in_range /\ rubric.tense_consistent
    /\ \A f \in AdvisoryFlags : rubric[f]
    /\ rubric.cross_scene_repetitions >= 3
    /\ rubric.slop_ratio = 0
    /\ approved

\* the value C9 states, before rounding, in three-hundredths:
\* ((mean of the dimensions) - 1) / 3 minus the advisory penalty, clamped
StatedScore3 ==
    LET sum     == rubric.style_adherence + rubric.character_voice
                   + rubric.outline_adherence + rubric.pacing + rubric.prose_quality
        penalty == (IF rubric.opener_monotony THEN 4 ELSE 0)
                   + (IF rubric.length_monotony THEN 4 ELSE 0)
                   + (IF rubric.passive_heavy THEN 2 ELSE 0)
                   + (IF rubric.structural_monotony THEN 2 ELSE 0)
                   + (IF rubric.low_diversity THEN 4 ELSE 0)
                   + (IF rubric.vocabulary_basic THEN 2 ELSE 0)
                   + 2 * (IF rubric.cross_scene_repetitions < 3
                          THEN rubric.cross_scene_repetitions ELSE 3)
        exact3  == 20 * (sum - 5) - 3 * penalty      \* 300 * ((sum/5 - 1)/3 - penalty/100)
    IN  IF exact3 < 0 THEN 0 ELSE IF exact3 > 300 THEN 300 ELSE exact3

\* C9: the score is the stated value rounded to two decimals (the hundredth
\* nearest to it), lies in [0,1], and is 1.00 for all 4s clean, 0.67 for all
\* 3s clean and 0.00 for all 1s.
C9_ScoreFormula ==
    Scored =>
        /\ quality_score \in 0..100
        /\ 2 * Abs(3 * quality_score - StatedScore3) <= 3
        /\ (AllDimensionsAre(4) /\ NoAdvisorySignal) => quality_score = 100
        /\ (AllDimensionsAre(3) /\ NoAdvisorySignal) => quality_score = 67
        /\ AllDimensionsAre(1) => quality_score = 0

\* a penalised score: all six flags and more repetitions than the cap
W_C9 ==
    /\ Scored
    /\ AllDimensionsAre(3)
    /\ \A f \in AdvisoryFlags : rubric[f]
    /\ rubric.cross_scene_repetitions > 3
    /\ quality_score = 43

\* C10: raising one dimension by one never lowers the score, setting one
\* advisory flag never raises it, one more cross-scene repetition never
\* raises it and changes nothing from 3 upwards.
C10_Monotone ==
    Scored =>
        /\ \A d \in Dimensions :
              rubric[d] < MaxScore =>
                  compute_quality_score([rubric EXCEPT ![d] = @ + 1]) >= quality_score
        /\ \A f \in AdvisoryFlags :
              ~rubric[f] =>
                  compute_quality_score([rubric EXCEPT ![f] = TRUE]) <= quality_score
        /\ compute_quality_score([rubric EXCEPT !.cross_scene_repetitions = @ + 1])
              <= quality_score
        /\ rubric.cross_scene_repetitions >= 3 =>
              compute_quality_score([rubric EXCEPT !.cross_scene_repetitions = @ + 1])
                  = quality_score

\* a state where each change moves the score strictly, and the cap is reached
W_C10 ==
    /\ Scored
    /\ rubric.cross_scene_repetitions = 3
    /\ \E d \in Dimensions :
          /\ rubric[d] < MaxScore
          /\ compute_quality_score([rubric EXCEPT ![d] = @ + 1]) > quality_score
    /\ \E f \in AdvisoryFlags :
          /\ ~rubric[f]
          /\ compute_quality_score([rubric EXCEPT ![f] = TRUE]) < quality_score
    /\ compute_quality_score([rubric EXCEPT !.cross_scene_repetitions = 2]) > quality_score

Evaluated == pc = "should_revise_or_advance" /\ edit_feedback # <<>>

\* C11: the stored dimension scores never exceed the judge's: style, voice
\* and outline are stored unchanged; pacing is min(judge pacing, 2) under
\* opener or length monotony and unchanged otherwise; prose is capped at 2
\* from 3 confirmed cliches, at 3 under low diversity, the lower cap winning,
\* and unchanged otherwise.
C11_ScoreCaps ==
    Evaluated =>
        LET stored == Last(edit_feedback).rubric
            judge  == raw_output
            flags  == analysis_results
        IN  /\ \A d \in Dimensions : stored[d] <= judge[d]
            /\ stored.style_adherence = judge.style_adherence
            /\ stored.character_voice = judge.character_voice
            /\ stored.outline_adherence = judge.outline_adherence
            /\ stored.pacing =
                  IF flags.opener_monotony \/ flags.length_monotony
                  THEN Min(judge.pacing, 2) ELSE judge.pacing
            /\ stored.prose_quality =
                  IF judge.confirmed_slop >= 3 THEN Min(judge.prose_quality, 2)
                  ELSE IF flags.low_diversity THEN Min(judge.prose_quality, 3)
                  ELSE judge.prose_quality

\* both prose caps apply to a judge score of 4, and the pacing cap as well
W_C11 ==
    /\ Evaluated
    /\ raw_output.prose_quality = 4 /\ raw_output.pacing = 4
    /\ raw_output.confirmed_slop >= 3
    /\ analysis_results.low_diversity
    /\ analysis_results.length_monotony /\ ~analysis_results.opener_monotony
    /\ Last(edit_feedback).rubric.prose_quality = 2
    /\ Last(edit_feedback).rubric.pacing = 2

\* C12: every EditFeedback in the history carries the quality_score and the
\* approved flag its own rubric computes, and the verdict the conditional
\* edge reads is the one of the rubric built last.
C12_FeedbackAgreesWithRubric ==
    /\ \A k \in DOMAIN edit_feedback :
          /\ edit_feedback[k].quality_score = compute_quality_score(edit_feedback[k].rubric)
          /\ edit_feedback[k].approved = compute_approved(edit_feedback[k].rubric)
    /\ Evaluated =>
          /\ Last(edit_feedback).rubric = rubric
          /\ Last(edit_feedback).approved = approved
          /\ Last(edit_feedback).quality_score = quality_score

\* the caps decide: the judge gave 4 everywhere, the capped rubric is rejected
W_C12 ==
    /\ Evaluated
    /\ \A d \in Dimensions : raw_output[d] = 4
    /\ analysis_results.word_count_in_range /\ analysis_results.tense_consistent
    /\ Last(edit_feedback).rubric.pacing = 2
    /\ Last(edit_feedback).rubric.prose_quality = 2
    /\ Last(edit_feedback).quality_score < APPROVE_THRESHOLD
    /\ ~Last(edit_feedback).approved

\* C13: the step taken on "revise" adds exactly one to the revision counter
\* and leaves the scene index alone; the step taken on "next_scene" adds
\* exactly one to the scene index and resets the counter to 0; and the
\* counter is 0 whenever the first draft of a scene is about to be written.
C13_TransitionEffects ==
    [][ /\ pc = "prepare_revision" =>
              /\ revision_count' = revision_count + 1
              /\ current_scene_index' = current_scene_index
        /\ pc = "advance_scene" =>
              /\ current_scene_index' = current_scene_index + 1
              /\ revision_count' = 0
        /\ (pc = "scene_writer" /\ GenerationCount(current_scene_index) = 0) =>
              revision_count = 0
      ]_vars

\* the second scene is about to get its first draft after the first one was
\* revised: the counter went 0 -> 1 and is 0 again
W_C13 ==
    /\ pc = "scene_writer"
    /\ current_scene_index = 1
    /\ GenerationCount(0) >= 2
    /\ GenerationCount(1) = 0
    /\ revision_count = 0

\* C14: once the decision is "complete" the stage becomes "complete", and
\* from the decision on neither the writer nor the evaluator runs: drafts,
\* feedback history, scene index and revision counter never change again.
C14_CompleteIsFinal ==
    /\ (decision = "complete") ~> (current_stage = "complete")
    /\ [][ decision = "complete" =>
              /\ UNCHANGED <<scene_drafts, edit_feedback, current_scene_index,
                             revision_count, write_log, decision>>
              /\ pc' \in {"mark_complete", "END"}
         ]_vars
    /\ [][ current_stage = "complete" => current_stage' = "complete" ]_vars

\* a finished run over two scenes
W_C14 ==
    /\ decision = "complete"
    /\ current_stage = "complete"
    /\ pc = "END"
    /\ NumUnits = 2
    /\ Len(scene_drafts) = 2
    /\ Len(edit_feedback) >= 2

\* the scene ids of the feedback history, as indices into the outline
FeedbackUnits ==
    [k \in DOMAIN edit_feedback |->
        CHOOSE i \in 0..(NumUnits - 1) :
            AllScenes(story_outline)[i + 1] = edit_feedback[k].scene_id]

\* a sequence of indices that starts at 0 and goes up by at most one
InOutlineOrder(seq) ==
    /\ seq # <<>> => seq[1] = 0
    /\ \A k \in 1..(Len(seq) - 1) : seq[k + 1] \in {seq[k], seq[k] + 1}

C16_OneDraftPerUnit ==
    /\ pc = "style_editor" => Len(scene_drafts) = current_scene_index + 1
    /\ Len(scene_drafts) <= NumUnits
    /\ \A i \in DOMAIN scene_drafts :
          scene_drafts[i].scene_id = AllScenes(story_outline)[i]
    /\ pc # "raised"
    /\ pc = "END" => Len(scene_drafts) = NumUnits

\* the second scene has just been rewritten: its draft replaced the last one
W_C16 ==
    /\ pc = "style_editor"
    /\ current_scene_index = 1
    /\ revision_count > 0
    /\ Len(scene_drafts) = 2
    /\ scene_drafts[2].scene_id = AllScenes(story_outline)[2]
    /\ GenerationCount(1) >= 2

\* C17: the draft of a scene that was advanced past, and every draft once
\* the decision is "complete", is never modified or replaced by a later
\* step; a revision replaces only the last draft of the list, which is the
\* draft of the scene at the current index.
C17_FinalizedDraftsImmutable ==
    [][ /\ \A i \in DOMAIN scene_drafts :
              (i <= current_scene_index \/ decision = "complete") =>
                  /\ i \in DOMAIN scene_drafts'
                  /\ scene_drafts'[i] = scene_drafts[i]
        /\ (pc = "scene_writer" /\ revision_count > 0) =>
              /\ Len(scene_drafts) = current_scene_index + 1
              /\ Len(scene_drafts') = Len(scene_drafts)
              /\ \A i \in 1..(Len(scene_drafts) - 1) : scene_drafts'[i] = scene_drafts[i]
              /\ Last(scene_drafts).scene_id = AllScenes(story_outline)[current_scene_index + 1]
              /\ Last(scene_drafts').scene_id = Last(scene_drafts).scene_id
              /\ Last(scene_drafts') # Last(scene_drafts)
      ]_vars

\* the second scene was rewritten: its draft is the one of the third writer
\* call, the draft of the first scene is still the one of the first call
W_C17 ==
    /\ pc = "style_editor"
    /\ write_log = <<0, 1, 1>>
    /\ Len(scene_drafts) = 2
    /\ scene_drafts[1].prose = 1
    /\ scene_drafts[2].prose = 3

\* C18: the feedback history is append-only: an evaluation appends exactly
\* one EditFeedback, carrying the id of the scene at the current index, to
\* the end of the list; no step removes, reorders or modifies an entry.
C18_FeedbackAppendOnly ==
    [][ /\ Len(edit_feedback') >= Len(edit_feedback)
        /\ SubSeq(edit_feedback', 1, Len(edit_feedback)) = edit_feedback
        /\ pc = "style_editor" =>
              /\ Len(edit_feedback') = Len(edit_feedback) + 1
              /\ Last(edit_feedback').scene_id =
                     AllScenes(story_outline)[current_scene_index + 1]
        /\ pc # "style_editor" => edit_feedback' = edit_feedback
      ]_vars

\* the first scene was rejected, revised and approved: both verdicts are kept
W_C18 ==
    /\ pc = "should_revise_or_advance"
    /\ current_scene_index = 0
    /\ revision_count = 1
    /\ Len(edit_feedback) = 2
    /\ ~edit_feedback[1].approved
    /\ edit_feedback[2].approved
    /\ edit_feedback[1].scene_id = edit_feedback[2].scene_id

\* the whitespace-separated tokens of a text, counted by where they end
TokenCount(text) ==
    Cardinality({i \in DOMAIN text :
                    /\ text[i] # " "
                    /\ (i = Len(text) \/ text[i + 1] = " ")})

\* C19: check_word_count reports within-tolerance exactly when target <= 0
\* or |actual - target| <= tolerance * target, where actual is the number of
\* whitespace-separated tokens; the boundary is inclusive: with target 1000
\* and tolerance 0.25, 750 and 1250 words pass, 749 and 1251 words fail.
C19_WordCountTolerance ==
    pc = "word_count_checked" =>
        LET actual    == call_result.actual
            target    == call_args.target
            tolerance == call_args.tolerance
        IN  /\ actual = TokenCount(call_args.prose)
            /\ call_result.within_tolerance <=>
                   (target <= 0 \/ 100 * Abs(actual - target) <= tolerance * target)
            /\ (target = 1000 /\ tolerance = 25) =>
                   /\ actual \in {750, 1250} => call_result.within_tolerance
                   /\ actual \in {749, 1251} => ~call_result.within_tolerance

\* the upper limit of the default tolerance: 1250 words for a target of 1000
W_C19 ==
    /\ pc = "word_count_checked"
    /\ call_args.target = 1000
    /\ call_args.tolerance = 25
    /\ call_result.actual = 1250
    /\ call_result.within_tolerance

\* the maximal word sequences that occur contiguously in the current text
\* and in a prior text
SharedRuns(current, priors) ==
    LET wc     == Words(current)
        subs   == { SubSeq(wc, v[1], v[2]) :
                       v \in { u \in (1..Len(wc)) \X (1..Len(wc)) : u[1] <= u[2] } }
        shared == { r \in subs : \E k \in DOMAIN priors : Substring(r, Words(priors[k])) }
    IN  { r \in shared : \A t \in shared : t = r \/ ~Substring(r, t) }

\* a run the collocation filter does not discard
Distinctive(run, has_wordfreq) ==
    has_wordfreq => \E k \in DOMAIN run : run[k] \notin CommonWords

\* C20: a verbatim run of five or more words shared between the current
\* text and a prior text is reported exactly once, whatever its length,
\* and counted once in repeated_count; no reported phrase is a substring of
\* another reported phrase.
C20_SharedRunReportedOnce ==
    pc = "repetition_detected" =>
        LET phrases == call_result.repeated_phrases
        IN  /\ call_result.repeated_count = Len(phrases)
            /\ \A run \in SharedRuns(call_args.current_prose, call_args.prior_scene_proses) :
                  (Len(run) >= 5 /\ Distinctive(run, call_args.has_wordfreq)) =>
                      Cardinality({ k \in DOMAIN phrases :
                                       Substring(phrases[k], join(run)) }) = 1
            /\ \A j, k \in DOMAIN phrases :
                  j # k => ~Substring(phrases[j], phrases[k])

AbsentRoster == [present |-> FALSE, characters |-> <<>>]
AbsentWorld == [present |-> FALSE, locations |-> <<>>]
AbsentBrief == [present |-> FALSE, themes |-> <<>>]

\* the terms that are in the allowlist only because of the names
NameDerived ==
    call_result \ build_story_allowlist([call_args EXCEPT !.character_roster = AbsentRoster,
                                                          !.world_context = AbsentWorld])

\* the terms that are in the allowlist only because of the themes
ThemeDerived ==
    call_result \ build_story_allowlist([call_args EXCEPT !.story_brief = AbsentBrief])

\* the names of the roster and the world, and the themes of the brief
GivenNames ==
    (IF call_args.character_roster.present
     THEN { call_args.character_roster.characters[k] :
                k \in DOMAIN call_args.character_roster.characters } ELSE {})
    \cup (IF call_args.world_context.present
          THEN { call_args.world_context.locations[k] :
                     k \in DOMAIN call_args.world_context.locations } ELSE {})

GivenThemes ==
    IF call_args.story_brief.present
    THEN { call_args.story_brief.themes[k] : k \in DOMAIN call_args.story_brief.themes }
    ELSE {}

WordsOf(text) == { split(text)[i] : i \in DOMAIN split(text) }

\* full names, longer name words and longer theme words are in the allowlist,
\* no short theme word is there because of a theme, absent data adds nothing
AllowlistHolds ==
    /\ \A t \in ThemeDerived : Len(t) > 3
    /\ \A n \in GivenNames :
          /\ strip_whitespace(n) # <<>> => lower(strip_whitespace(n)) \in call_result
          /\ \A w \in WordsOf(n) : Len(w) > 2 => lower(w) \in call_result
    /\ \A t \in GivenThemes : \A w \in WordsOf(t) : Len(w) > 3 => lower(w) \in call_result
    /\ (~call_args.character_roster.present /\ ~call_args.world_context.present
        /\ ~call_args.story_brief.present) => call_result = {}
    /\ \A t \in call_result : t = lower(t)

\* C21 as stated: the allowlist holds no term of 2 or fewer characters
\* derived from a character or location name and no term of 3 or fewer
\* characters derived from a theme, and holds every full name, every longer
\* name word and every longer theme word in lowercase; absent data adds
\* nothing.
C21_NoShortTerms ==
    pc = "allowlist_built" =>
        /\ \A t \in NameDerived : Len(t) > 2
        /\ AllowlistHolds

\* C21 amended: a term of 2 or fewer characters derived from a name is a
\* full name; name words of 2 or fewer characters are not added as parts.
C21_NoShortParts ==
    pc = "allowlist_built" =>
        /\ \A t \in NameDerived :
              Len(t) > 2 \/ \E n \in GivenNames : t = lower(strip_whitespace(n))
        /\ AllowlistHolds

\* the character "Ab": the two-letter name is in the allowlist as a full name
W_C21 ==
    /\ pc = "allowlist_built"
    /\ call_args.character_roster.present
    /\ call_args.character_roster.characters = << <<"A", "b">> >>
    /\ ~call_args.world_context.present
    /\ <<"a", "b">> \in call_result

\* C22: when a scene is rewritten on a revise transition (the revision
\* counter is positive and the history is not empty), run_scene_writer adds
\* exactly one addendum to its system prompt: the polish addendum if the latest
\* EditFeedback is approved, the revision addendum if it is not.
C22_ExactlyOneFraming ==
    (pc = "style_editor" /\ revision_count > 0 /\ edit_feedback # <<>>)
        => revision_context.addenda =
               IF Last(edit_feedback).approved
               THEN <<"POLISH_ADDENDUM">>
               ELSE <<"REVISION_ADDENDUM">>

\* a rewrite after an approved EditFeedback has been written with the polish addendum
W_C22 ==
    /\ pc = "style_editor"
    /\ revision_count > 0
    /\ edit_feedback # <<>>
    /\ Last(edit_feedback).approved
    /\ revision_context.addenda = <<"POLISH_ADDENDUM">>
    /\ llm_calls = <<ModelCall("scene_writer", "invoke")>>

\* a step in which a call of the generative model raised
ModelCallRaised ==
    /\ pc' = "raised"
    /\ Len(llm_calls') = Len(llm_calls) + 1

\* C23: when the model call of the writer or of the editor raises, the
\* exception leaves the node and the state of the run is the state before the
\* node ran: no EditFeedback and no metrics entry is appended, no draft is
\* added or replaced, the scene index and the revision counter are unchanged.
C23_FailedCallLeavesState ==
    [][ModelCallRaised =>
           /\ pc \in {"scene_writer", "style_editor"}
           /\ UNCHANGED <<edit_feedback, scene_metrics, scene_drafts,
                          current_scene_index, revision_count,
                          story_outline, current_stage, max_revisions>>]_vars

\* the call of the editor raised on a revision of the second scene: the run
\* has stopped, the revised draft has no EditFeedback and no metrics entry
W_C23 ==
    /\ pc = "raised"
    /\ Last(llm_calls) = ModelCall("style_editor", "invoke")
    /\ current_scene_index = 1
    /\ revision_count = 1
    /\ Len(scene_drafts) = 2
    /\ Len(edit_feedback) = Len(scene_metrics)
    /\ Len(edit_feedback) = Len(write_log) - 1

\* the score of a rubric with the advisory penalties of a configuration
ConfiguredScore(r, penalties) ==
    LET penalty == (IF r.opener_monotony     THEN penalties.opener_monotony     ELSE 0)
                 + (IF r.length_monotony     THEN penalties.length_monotony     ELSE 0)
                 + (IF r.passive_heavy       THEN penalties.passive_heavy       ELSE 0)
                 + (IF r.structural_monotony THEN penalties.structural_monotony ELSE 0)
                 + (IF r.low_diversity       THEN penalties.low_diversity       ELSE 0)
                 + (IF r.vocabulary_basic    THEN penalties.vocabulary_basic    ELSE 0)
                 + penalties.cross_scene_per
                       * Min(r.cross_scene_repetitions, penalties.cross_scene_max)
    IN  Round2(Max(0, Min(300, WeightedSum(r) - 100 - 3 * penalty)))

\* C24: the score and the verdict of an evaluation are those of the run's
\* configured values: with the advisory penalties of the configuration bundle
\* (per-flag penalties, cross-scene penalty and its cap) the score is the
\* normalized weighted sum less the configured penalties, and the verdict
\* compares that score with the approval threshold.
C24_ConfiguredValuesApply ==
    pc = "rubric_scored" =>
        /\ quality_score = ConfiguredScore(rubric, prompt_configs.advisory_penalties)
        /\ approved = (ConfiguredScore(rubric, prompt_configs.advisory_penalties)
                           >= APPROVE_THRESHOLD)

\* the draft written last is the first draft of its scene
FirstDraft ==
    /\ write_log # <<>>
    /\ \A i \in 1..(Len(write_log) - 1) : write_log[i] # Last(write_log)

\* C25: whenever run_scene_writer adds revision context, the EditFeedback it
\* takes it from (the last of the history) is of the scene being written; and
\* the first draft of every scene, also of a scene after the first, when the
\* history holds the feedback of the scenes before, is written with no
\* revision context.
C25_ContextOfCurrentUnit ==
    /\ revision_context.feedback_scene_ids \subseteq {revision_context.scene_id}
    /\ revision_context.addenda # <<>> =>
           revision_context.feedback_scene_ids = {revision_context.scene_id}
    /\ FirstDraft => /\ revision_context.addenda = <<>>
                     /\ revision_context.feedback_scene_ids = {}
    /\ write_log # <<>> =>
           revision_context.scene_id = AllScenes(story_outline)[Last(write_log) + 1]

\* the second scene was rewritten with the feedback of its own first draft,
\* after its first draft was written with the feedback of the first scene in
\* the history
W_C25 ==
    /\ pc = "style_editor"
    /\ write_log = <<0, 1, 1>>
    /\ Len(edit_feedback) = 2
    /\ revision_context = [scene_id |-> 2, addenda |-> <<"REVISION_ADDENDUM">>,
                           feedback_scene_ids |-> {2}]

\* the bound of scripts/run_prototype.py on the node executions of a run over
\* n scenes with m revisions allowed per scene
StepBound(n, m) == 2 + n * (3 * m + 3)

\* C26: the number of node executions of a run over an outline of n scenes is
\* at most 2 + n * (3 * max_revisions + 3) at every point of the run and at
\* its end; for 5 scenes and max_revisions = 2 the bound is 47, which is
\* within the recursion limit of 50.
C26_StepBound ==
    /\ pc \in {"plot_architect", "beat_outliner"} => steps <= 2
    /\ pc \notin {"plot_architect", "beat_outliner"} =>
           steps <= StepBound(NumUnits, max_revisions)
    /\ pc \notin {"plot_architect", "beat_outliner", "END"} =>
           steps <= 2 + current_scene_index * (3 * max_revisions + 3)
                      + 3 * revision_count + 2
    /\ StepBound(5, 2) = 47
    /\ StepBound(5, 2) <= recursion_limit

\* a run over two scenes with two revisions allowed has ended after exactly
\* 2 + 2 * 9 = 20 node executions: every draft was rejected
W_C26 ==
    /\ pc = "END"
    /\ NumUnits = 2
    /\ max_revisions = 2
    /\ steps = StepBound(2, 2)

\* C27: the pacing criteria reported to the judge agree with the flags of the
\* rubric: (a) sentence length variety is FAIL exactly when length_monotony is
\* set and (b) opener variety is FAIL exactly when opener_monotony is set, for
\* every text, the empty text and an unavailable analysis included.
C27_CriteriaAgreeWithFlags ==
    pc = "criteria_reported" =>
        /\ (call_result.criterion_a = "FAIL") <=> rubric.length_monotony
        /\ (call_result.criterion_b = "FAIL") <=> rubric.opener_monotony

\* C28: every call of the generative model made in a run of the pipeline, by
\* the planning, outlining, writing and evaluating nodes alike, goes through
\* invoke() of agents/base.py and so through its throttle and its retry.
C28_AllCallsThroughInvoke ==
    \A i \in DOMAIN llm_calls : llm_calls[i].through = "invoke"

\* the admissions whose timestamps lie in the 60 seconds that start at t
AdmittedInWindow(t) ==
    { j \in DOMAIN admitted : t <= admitted[j] /\ admitted[j] < t + RateWindow }

\* a caller passes from the throttle to runnable.invoke in this step
AttemptStarts(c) == callers[c].pc # "calling" /\ callers'[c].pc = "calling"

\* C29: under every interleaving of the callers, no 60-second window holds the
\* admission timestamps of more than 9 calls; a caller that finds 9 admissions
\* in the window holds the lock and sleeps until the oldest has left the
\* window; and every attempt of invoke(), the retried ones included, is
\* admitted by the throttle and takes one slot.
C29_ThrottleWindow ==
    /\ [](\A i \in DOMAIN admitted :
              Cardinality(AdmittedInWindow(admitted[i])) <= _RPM_LIMIT)
    /\ [](\A c \in DOMAIN callers :
              callers[c].pc = "in_lock" /\ Len(_call_timestamps) >= _RPM_LIMIT =>
                  /\ _rate_lock = c
                  /\ callers[c].wake > _call_timestamps[1] + RateWindow)
    /\ [](_daily_call_count = Len(admitted))
    /\ [][\A c \in DOMAIN callers :
              AttemptStarts(c) =>
                  /\ callers[c].pc = "in_lock"
                  /\ admitted' = Append(admitted, clock)
                  /\ _call_timestamps' = Append(_call_timestamps, clock)]_vars

\* nine calls were admitted within one window and the tenth was admitted only
\* when the first was more than 60 seconds old
W_C29 ==
    /\ Len(admitted) >= 10
    /\ admitted[9] < admitted[1] + RateWindow
    /\ admitted[10] = admitted[1] + RateWindow + RateCushion

\* C30: invoke() makes at most 3 attempts per call; it goes to a further
\* attempt only after a rate-limit error (429 / ResourceExhausted) and only
\* when the sleep that starts at that error, of at least the delay the server
\* suggested, is over; any other error is raised on the attempt where it
\* occurs; and the rate-limit error of the third attempt is raised at once,
\* with no further sleep.
C30_RetryPolicy ==
    /\ [](\A c \in DOMAIN callers : callers[c].attempt < _MAX_RETRIES)
    /\ [][\A c \in DOMAIN callers :
              /\ callers'[c].attempt > callers[c].attempt =>
                     /\ callers'[c].attempt = callers[c].attempt + 1
                     /\ callers[c].pc = "backoff"
                     /\ IsRateLimit(callers[c].e)
                     /\ clock >= callers[c].wake
              /\ callers[c].pc # "backoff" /\ callers'[c].pc = "backoff" =>
                     /\ callers[c].pc = "calling"
                     /\ IsRateLimit(callers'[c].e)
                     /\ callers'[c].wake > clock
                     /\ \A seconds \in callers'[c].e.retry_delay :
                            callers'[c].wake >= clock + 2 * seconds
              /\ callers[c].pc = "calling" /\ callers'[c].e.kind = "other" =>
                     callers'[c].pc = "raised"
              /\ callers[c].pc = "calling" /\ IsRateLimit(callers'[c].e)
                         /\ callers[c].attempt = _MAX_RETRIES - 1 =>
                     /\ callers'[c].pc = "raised"
                     /\ callers'[c].wake = callers[c].wake]_vars

\* a call has ended with the rate-limit error of its third attempt, after two
\* sleeps; the other caller's call ended on its first attempt with another error
W_C30 ==
    /\ callers # <<>>
    /\ \E c, d \in DOMAIN callers :
           /\ callers[c].pc = "raised"
           /\ callers[c].attempt = _MAX_RETRIES - 1
           /\ IsRateLimit(callers[c].e)
           /\ callers[d].pc = "raised"
           /\ callers[d].attempt = 0
           /\ callers[d].e.kind = "other"
    /\ Len(admitted) >= _MAX_RETRIES + 1

====
